---------------------------- MODULE Spec2Model ----------------------------
(***************************************************************************)
(* A model of the storage core of the teaching database: the extendible    *)
(* hash table, the LRU-K replacer, the buffer pool manager instance and    *)
(* the B+ tree index that runs on top of the buffer pool.                  *)
(*                                                                         *)
(* Every component is modelled as a record holding its fields, and every   *)
(* method as an operator from the record before the call to the record     *)
(* after it (plus the returned value), so that a method that calls another *)
(* component is one operator application and an action is a whole call.    *)
(***************************************************************************)
EXTENDS Integers, Sequences, FiniteSets, TLC

VARIABLES
    bpm,      \* the BufferPoolManagerInstance (with its replacer, directory, disk)
    latch_,   \* the buffer pool latch: "free", or "deadlock" once a call blocks on it for ever
    nwrites,  \* how many times a holder of a pinned frame has written a page's bytes
    calls,    \* history: how many NewPage/FetchPage and UnpinPage calls have succeeded
    rt,       \* history: per page id, how far the page is through a write/evict/fetch round trip
    tree,     \* the BPlusTree: root_page_id_, and st ("ok" while its process runs)
    kv,       \* history: the key/value pairs inserted into the tree and not removed since
    last,     \* history: the last call on the tree and what it returned
    ops,      \* history: the number of calls on the tree
    ht,       \* an ExtendibleHashTable<int, int> of its own, with the history of its calls
    lru,      \* an LRUKReplacer of its own, with the history of its calls
    exec,     \* an executor with its children, and the history of its Next calls;
              \* or a plan with what the optimizer makes of it
    threads   \* the threads that call a component at once: where each is in its call,
              \* and who holds the component's lock

vars == <<bpm, latch_, nwrites, calls, rt, tree, kv, last, ops, ht, lru, exec, threads>>
poolvars == <<latch_, nwrites, calls, rt>>
treevars == <<tree, kv, last, ops>>
unitvars == <<ht, lru, exec, threads>>

-----------------------------------------------------------------------------
(* Bounds of the model *)

PoolSize == 2         \* frames of the buffer pool
MaxPageId == 2        \* page ids range over 0..MaxPageId
MaxTimestamp == 3     \* the replacer's access counter stops the model here
DataPoolSize == 2     \* the same three bounds where callers also write page bytes
DataMaxPageId == 1
DataMaxTimestamp == 4
MaxWrites == 2        \* writes of page bytes by the holders of pinned frames
ReplacerK == 2        \* replacer_k, the k of LRU-K
BucketSize == 1       \* bucket_size_ of the pool's directory, small so that buckets split
TreePoolSize == 10    \* frames of the pool under the B+ tree
TreeMaxPageId == 12   \* page ids of the disk under the B+ tree
LeafMaxSize == 2      \* leaf_max_size
InternalMaxSize == 3  \* internal_max_size
MaxKey == 6           \* keys range over 1..MaxKey
MaxOps == 7           \* calls on the B+ tree in one run
MaxHeight == 4        \* levels of the tree a property walks down
DeepMaxOps == 4       \* calls on the B+ tree that starts three levels high
ScanMaxOps == 5       \* calls on the B+ tree in a run that takes iterators
MaxLeftRows == 2      \* tuples the left child of a join produces
MaxRightRows == 2     \* tuples of the right child of a join, or of its inner table
HashBucketSize == 2   \* bucket_size of the hash table that is driven on its own
HashMaxValue == 2     \* its values range over 1..HashMaxValue
HashMaxIterations == 8  \* iterations of the retry loop of Insert a property follows
MaxGrowInserts == 5     \* inserts into the table that only grows
LRUFrames == 3        \* num_frames of the replacer that is driven on its own
LRUMaxTimestamp == 5  \* its access counter stops the model here
MaxChildRows == 2     \* rows the child of an Insert, Delete or IndexScan produces
MaxIndexes == 2       \* indexes on the table an Insert or Delete writes
MaxTableRows == 2     \* tuples in the table a Delete or IndexScan reads
NumThreads == 2       \* threads that call a component at once
RaceMaxTimestamp == 2 \* accesses recorded in the replacer that threads share
RangeMaxTimestamp == 2 \* accesses recorded in the replacer that is called with any frame id
MaxNextCalls == 3     \* Next calls on an Insert or Delete executor after an Init
TightPoolSize == 2    \* frames of the pool under a B+ tree that runs out of them
MaxPlanHeight == 4    \* plan nodes above the scan at the bottom of a plan
MaxPlanField == 2     \* output schemas of plan nodes range over 1..MaxPlanField

(* Program constants *)

INVALID_PAGE_ID == -1
NullFrame == -1       \* frame_id = -1 / the null Page pointer

Frames(b) == 0..(b.pool_size_ - 1)

(* The content of a page is a record; a page of zero bytes is ZeroData and *)
(* the bytes of the n-th write by a caller are Bytes(n): every write puts   *)
(* bytes that no page held before.                                         *)
ZeroData == [zero |-> TRUE]
Bytes(n) == [bytes |-> n]

Pow2(n) == 2 ^ n

\* a local variable: Body reads the value v under the name it gives it
With(v, Body(_)) == Body(v)

-----------------------------------------------------------------------------
(* ExtendibleHashTable<K, V>.  dir_ holds bucket ids (the shared pointers), *)
(* buckets maps a bucket id to the bucket: depth_ and list_ of <<k, v>>.    *)

\* a hash whose three low bits are the same for every key
HashHighBits(key) == key * 8

Hash(key) == key      \* std::hash<int> is the identity

EHT_New(bucket_size) ==
    [global_depth_ |-> 0, bucket_size_ |-> bucket_size, num_buckets_ |-> 1,
     dir_ |-> <<1>>,
     buckets |-> (1 :> [size_ |-> bucket_size, depth_ |-> 0, list_ |-> <<>>])]

IndexOf(t, key) == Hash(key) % Pow2(t.global_depth_)

BucketAt(t, idx) == t.buckets[t.dir_[idx + 1]]

RECURSIVE ListFind(_, _, _)
ListFind(list, key, i) ==
    IF i > Len(list) THEN 0
    ELSE IF list[i][1] = key THEN i
    ELSE ListFind(list, key, i + 1)

\* Bucket::Find: [found, value]
Bucket_Find(bk, key) ==
    LET i == ListFind(bk.list_, key, 1)
    IN  IF i = 0 THEN [found |-> FALSE, value |-> NullFrame]
        ELSE [found |-> TRUE, value |-> bk.list_[i][2]]

RemoveAt(s, i) == SubSeq(s, 1, i - 1) \o SubSeq(s, i + 1, Len(s))

\* a bucket whose Remove reports the key without erasing it
BucketRemoveReportsOnly(bk, key) ==
    [ok |-> ListFind(bk.list_, key, 1) # 0, bucket |-> bk]

\* Bucket::Remove: [ok, bucket]
Bucket_Remove(bk, key) ==
    LET i == ListFind(bk.list_, key, 1)
    IN  IF i = 0 THEN [ok |-> FALSE, bucket |-> bk]
        ELSE [ok |-> TRUE, bucket |-> [bk EXCEPT !.list_ = RemoveAt(@, i)]]

Bucket_IsFull(bk) == Len(bk.list_) = bk.size_

\* a bucket whose Insert reports success on a full list without storing the pair
BucketInsertDropsWhenFull(bk, key, value) ==
    LET i == ListFind(bk.list_, key, 1)
    IN  IF i # 0 THEN [ok |-> TRUE, bucket |-> [bk EXCEPT !.list_[i] = <<key, value>>]]
        ELSE IF Bucket_IsFull(bk) THEN [ok |-> TRUE, bucket |-> bk]
        ELSE [ok |-> TRUE, bucket |-> [bk EXCEPT !.list_ = Append(@, <<key, value>>)]]

\* Bucket::Insert: [ok, bucket]
Bucket_Insert(bk, key, value) ==
    LET i == ListFind(bk.list_, key, 1)
    IN  IF i # 0 THEN [ok |-> TRUE, bucket |-> [bk EXCEPT !.list_[i] = <<key, value>>]]
        ELSE IF Bucket_IsFull(bk) THEN [ok |-> FALSE, bucket |-> bk]
        ELSE [ok |-> TRUE, bucket |-> [bk EXCEPT !.list_ = Append(@, <<key, value>>)]]

\* ExtendibleHashTable::Find; value is left untouched (the caller's -1) on a miss
EHT_Find(t, key) == Bucket_Find(BucketAt(t, IndexOf(t, key)), key)

\* ExtendibleHashTable::Remove: [ok, t]
EHT_Remove(t, key) ==
    LET id == t.dir_[IndexOf(t, key) + 1]
        r  == Bucket_Remove(t.buckets[id], key)
    IN  [ok |-> r.ok, t |-> [t EXCEPT !.buckets[id] = r.bucket]]

\* a table whose RedistributeBucket leaves num_buckets_ as it was
RedistributeUncounted(t, id) ==
    LET depth == t.buckets[id].depth_ + 1
        list  == t.buckets[id].list_
        image == Cardinality(DOMAIN t.buckets) + 1
        pre   == Hash(list[1][1]) % Pow2(depth - 1)
        Stays(e) == Hash(e[1]) % Pow2(depth) = pre
        Moves(e) == ~Stays(e)
    IN  [t EXCEPT
           !.buckets = (image :> [size_ |-> t.bucket_size_, depth_ |-> depth,
                                  list_ |-> SelectSeq(list, Moves)])
                       @@ [@ EXCEPT ![id] = [@ EXCEPT !.depth_ = depth,
                                                      !.list_ = SelectSeq(list, Stays)]],
           !.dir_ = [i \in 1..Len(t.dir_) |->
                        IF ((i - 1) % Pow2(depth - 1)) = pre /\ ((i - 1) % Pow2(depth)) # pre
                        THEN image ELSE t.dir_[i]]]

\* ExtendibleHashTable::RedistributeBucket(dir_[idx]), id the bucket's id
RedistributeBucket(t, id) ==
    LET depth == t.buckets[id].depth_ + 1
        list  == t.buckets[id].list_
        image == t.num_buckets_ + 1
        pre   == Hash(list[1][1]) % Pow2(depth - 1)
        Stays(e) == Hash(e[1]) % Pow2(depth) = pre
        Moves(e) == ~Stays(e)
        moved == SelectSeq(list, Moves)
    IN  [t EXCEPT
           !.num_buckets_ = @ + 1,
           !.buckets = (image :> [size_ |-> t.bucket_size_, depth_ |-> depth, list_ |-> moved])
                       @@ [@ EXCEPT ![id] = [@ EXCEPT !.depth_ = depth,
                                                      !.list_ = SelectSeq(list, Stays)]],
           !.dir_ = [i \in 1..Len(t.dir_) |->
                        IF ((i - 1) % Pow2(depth - 1)) = pre /\ ((i - 1) % Pow2(depth)) # pre
                        THEN image ELSE t.dir_[i]]]

\* ExtendibleHashTable::Insert: the retry loop
RECURSIVE EHT_Insert(_, _, _)
EHT_Insert(t, key, value) ==
    LET idx == IndexOf(t, key)
        id  == t.dir_[idx + 1]
        r   == Bucket_Insert(t.buckets[id], key, value)
    IN  IF r.ok THEN [t EXCEPT !.buckets[id] = r.bucket]
        ELSE IF t.global_depth_ = t.buckets[id].depth_
             THEN EHT_Insert([t EXCEPT !.global_depth_ = @ + 1, !.dir_ = @ \o @], key, value)
             ELSE EHT_Insert(RedistributeBucket(t, id), key, value)

\* one iteration of the loop of ExtendibleHashTable::Insert: [done, t]
InsertIteration(t, key, value) ==
    LET idx == IndexOf(t, key)
        id  == t.dir_[idx + 1]
        r   == Bucket_Insert(t.buckets[id], key, value)
    IN  IF r.ok THEN [done |-> TRUE, t |-> [t EXCEPT !.buckets[id] = r.bucket]]
        ELSE IF t.global_depth_ = t.buckets[id].depth_
             THEN [done |-> FALSE, t |-> [t EXCEPT !.global_depth_ = @ + 1, !.dir_ = @ \o @]]
             ELSE [done |-> FALSE, t |-> RedistributeBucket(t, id)]

\* the iterations of the loop, in order, the first n of them at most
RECURSIVE InsertRun(_, _, _, _)
InsertRun(t, key, value, n) ==
    IF n = 0 THEN <<>>
    ELSE With(InsertIteration(t, key, value), LAMBDA it :
             IF it.done THEN <<it>> ELSE <<it>> \o InsertRun(it.t, key, value, n - 1))

-----------------------------------------------------------------------------
(* LRUKReplacer.  mp_ maps a tracked frame id to its node: time_ (the queue *)
(* of its last timestamps, oldest first) and enable_evit_.                  *)

LRUK_New(num_frames, k) ==
    [replacer_size_ |-> num_frames, k_ |-> k, mp_ |-> <<>>,
     curr_size_ |-> 0, current_timestamp_ |-> 0]

NewNode == [time_ |-> <<>>, enable_evit_ |-> FALSE]

\* mp_[frame_id]: operator[] creates the node when absent
Node(r, frame_id) == IF frame_id \in DOMAIN r.mp_ THEN r.mp_[frame_id] ELSE NewNode

SetNode(r, frame_id, node) ==
    [r EXCEPT !.mp_ = [f \in (DOMAIN r.mp_) \cup {frame_id} |->
                          IF f = frame_id THEN node ELSE r.mp_[f]]]

\* a replacer whose erase leaves the entry in mp_
EraseNothing(r, frame_id) == r

EraseNode(r, frame_id) ==
    [r EXCEPT !.mp_ = [f \in (DOMAIN r.mp_) \ {frame_id} |-> r.mp_[f]]]

\* time_.front(): on a queue that never held an element it reads the memory of
\* the queue's first slot, which nothing has written (raw_)
Front(node) == IF node.time_ = <<>> THEN node.raw_ ELSE Head(node.time_)

\* LRUKReplacer::Judge(s, t): s is a better victim than t
Judge(r, s, t) ==
    LET ns == Len(Node(r, s).time_)
        nt == Len(Node(r, t).time_)
    IN  IF ns < r.k_ /\ nt = r.k_ THEN TRUE
        ELSE IF ns = r.k_ /\ nt < r.k_ THEN FALSE
        ELSE Front(Node(r, s)) < Front(Node(r, t))

\* the loop of Evict over the entries of mp_, frame ids ascending
RECURSIVE EvictScan(_, _, _)
EvictScan(r, todo, best) ==
    IF todo = {} THEN best
    ELSE LET k == CHOOSE x \in todo : \A y \in todo : x <= y
             nb == IF r.mp_[k].enable_evit_ /\ (best = NullFrame \/ Judge(r, k, best))
                   THEN k ELSE best
         IN  EvictScan(r, todo \ {k}, nb)

\* a replacer whose Evict erases the victim without counting it off
EvictKeepsCount(r) ==
    With(EvictScan(r, DOMAIN r.mp_, NullFrame), LAMBDA victim :
        IF victim # NullFrame
        THEN [ok |-> TRUE, frame_id |-> victim, r |-> EraseNode(r, victim)]
        ELSE [ok |-> FALSE, frame_id |-> NullFrame, r |-> r])

\* a replacer whose Evict takes the lowest tracked frame, evictable or not
EvictAny(r) ==
    IF DOMAIN r.mp_ # {}
    THEN With(CHOOSE x \in DOMAIN r.mp_ : \A y \in DOMAIN r.mp_ : x <= y, LAMBDA victim :
             [ok |-> TRUE, frame_id |-> victim,
              r |-> [EraseNode(r, victim) EXCEPT !.curr_size_ = @ - 1]])
    ELSE [ok |-> FALSE, frame_id |-> NullFrame, r |-> r]

\* LRUKReplacer::Evict: [ok, frame_id, r]
LRUK_Evict(r) ==
    With(EvictScan(r, DOMAIN r.mp_, NullFrame), LAMBDA victim :
        IF victim # NullFrame
        THEN [ok |-> TRUE, frame_id |-> victim,
              r |-> [EraseNode(r, victim) EXCEPT !.curr_size_ = @ - 1]]
        ELSE [ok |-> FALSE, frame_id |-> NullFrame, r |-> r])

\* the check at the head of RecordAccess and SetEvictable: it throws
Throws(r, frame_id) == frame_id > r.replacer_size_

\* a replacer whose RecordAccess never drops the oldest timestamp
RecordAccessKeepsAll(r, frame_id) ==
    [SetNode(r, frame_id, [Node(r, frame_id) EXCEPT
                              !.time_ = Append(@, r.current_timestamp_ + 1)])
       EXCEPT !.current_timestamp_ = @ + 1]

\* LRUKReplacer::RecordAccess (frame_id <= replacer_size_, else it throws)
LRUK_RecordAccess(r, frame_id) ==
    LET ts   == r.current_timestamp_ + 1
        q    == Append(Node(r, frame_id).time_, ts)
        q2   == IF Len(q) > r.k_ THEN Tail(q) ELSE q
    IN  [SetNode(r, frame_id, [Node(r, frame_id) EXCEPT !.time_ = q2])
           EXCEPT !.current_timestamp_ = ts]

\* a replacer whose SetEvictable counts every call, also one that changes no flag
SetEvictableCountsAll(r, frame_id, set_evictable) ==
    [SetNode(r, frame_id, [Node(r, frame_id) EXCEPT !.enable_evit_ = set_evictable])
       EXCEPT !.curr_size_ = IF set_evictable THEN @ + 1 ELSE @ - 1]

\* LRUKReplacer::SetEvictable (frame_id <= replacer_size_, else it throws)
LRUK_SetEvictable(r, frame_id, set_evictable) ==
    With(Node(r, frame_id), LAMBDA n :
        IF n.enable_evit_ # set_evictable
        THEN [SetNode(r, frame_id, [n EXCEPT !.enable_evit_ = set_evictable])
                EXCEPT !.curr_size_ = IF set_evictable THEN @ + 1 ELSE @ - 1]
        ELSE SetNode(r, frame_id, n))

\* a replacer whose Remove returns without erasing the entry
RemoveKeepsEntry(r, frame_id) == [threw |-> FALSE, r |-> r]

\* LRUKReplacer::Remove: [threw, r]; it throws on a tracked, non-evictable frame
LRUK_Remove(r, frame_id) ==
    IF frame_id \notin DOMAIN r.mp_ THEN [threw |-> FALSE, r |-> r]
    ELSE IF ~r.mp_[frame_id].enable_evit_ THEN [threw |-> TRUE, r |-> r]
    ELSE [threw |-> FALSE, r |-> [EraseNode(r, frame_id) EXCEPT !.curr_size_ = @ - 1]]

\* LRUKReplacer::Size
LRUK_Size(r) == r.curr_size_

-----------------------------------------------------------------------------
(* BufferPoolManagerInstance.  pages_ maps a frame id to the Page object:   *)
(* page_id_, pin_count_, is_dirty_ and data_.  disk is the content of the   *)
(* disk manager's file, page by page (a page never written reads as zero).  *)

FreshPage == [page_id_ |-> INVALID_PAGE_ID, pin_count_ |-> 0, is_dirty_ |-> FALSE,
              data_ |-> ZeroData]

BPM_New(pool_size, replacer_k, max_page_id) ==
    [pool_size_ |-> pool_size,
     pages_ |-> [f \in 0..(pool_size - 1) |-> FreshPage],
     page_table_ |-> EHT_New(BucketSize),
     replacer_ |-> LRUK_New(pool_size, replacer_k),
     free_list_ |-> [i \in 1..pool_size |-> i - 1],
     next_page_id_ |-> 0,
     disk |-> [p \in 0..max_page_id |-> ZeroData]]

PageIds(b) == DOMAIN b.disk
Resident(b, page_id) == EHT_Find(b.page_table_, page_id).found

\* a disk that drops every write
DiskWriteLost(b, page_id, data) == b

\* DiskManager::WritePage and ReadPage
DiskWrite(b, page_id, data) == [b EXCEPT !.disk[page_id] = data]
DiskRead(b, page_id) == b.disk[page_id]

\* a pool that drops the victim's directory entry without writing its bytes back
ReclaimNoWriteBack(b, frame_id) ==
    [b EXCEPT !.pages_[frame_id].is_dirty_ = FALSE,
              !.page_table_ = EHT_Remove(@, b.pages_[frame_id].page_id_).t]

\* the victim branch of NewPgImp and FetchPgImp: write back if dirty, drop the
\* directory entry of the page the frame held
ReclaimVictim(b, frame_id) ==
    LET pg == b.pages_[frame_id]
        b1 == IF pg.is_dirty_
              THEN [DiskWrite(b, pg.page_id_, pg.data_) EXCEPT !.pages_[frame_id].is_dirty_ = FALSE]
              ELSE b
    IN  [b1 EXCEPT !.page_table_ = EHT_Remove(@, pg.page_id_).t]

\* the frame a miss is served from: free list first, else the replacer's victim
\* [ok, frame_id, b]
TakeFrame(b) ==
    IF b.free_list_ # <<>>
    THEN [ok |-> TRUE, frame_id |-> Head(b.free_list_),
          b |-> [b EXCEPT !.free_list_ = Tail(@)]]
    ELSE With(LRUK_Evict(b.replacer_), LAMBDA ev :
             IF ev.ok
             THEN [ok |-> TRUE, frame_id |-> ev.frame_id,
                   b |-> ReclaimVictim([b EXCEPT !.replacer_ = ev.r], ev.frame_id)]
             ELSE [ok |-> FALSE, frame_id |-> NullFrame, b |-> b])

\* a pool that records the access but leaves the frame's evictability alone
TouchKeepsEvictable(b, frame_id) ==
    [b EXCEPT !.replacer_ = LRUK_RecordAccess(@, frame_id)]

\* replacer_->RecordAccess(frame_id); replacer_->SetEvictable(frame_id, false)
Touch(b, frame_id) ==
    [b EXCEPT !.replacer_ = LRUK_SetEvictable(LRUK_RecordAccess(@, frame_id), frame_id, FALSE)]

\* BufferPoolManagerInstance::NewPgImp: [b, frame (NullFrame: nullptr), page_id]
NewPgImp(b) ==
    With(TakeFrame(b), LAMBDA tf :
        IF ~tf.ok THEN [b |-> b, frame |-> NullFrame, page_id |-> INVALID_PAGE_ID]
        ELSE LET f   == tf.frame_id
                 pid == tf.b.next_page_id_
                 b1  == [tf.b EXCEPT !.next_page_id_ = @ + 1,
                                     !.page_table_ = EHT_Insert(@, pid, f),
                                     !.pages_[f] = [page_id_ |-> pid, pin_count_ |-> 1,
                                                    is_dirty_ |-> FALSE, data_ |-> ZeroData]]
             IN  [b |-> Touch(b1, f), frame |-> f, page_id |-> pid])

\* BufferPoolManagerInstance::FetchPgImp: [b, frame (NullFrame: nullptr)]
FetchPgImp(b, page_id) ==
    With(EHT_Find(b.page_table_, page_id), LAMBDA hit :
        IF hit.found
        THEN [b |-> [Touch(b, hit.value) EXCEPT !.pages_[hit.value].pin_count_ = @ + 1],
              frame |-> hit.value]
        ELSE With(TakeFrame(b), LAMBDA tf :
                 IF ~tf.ok THEN [b |-> b, frame |-> NullFrame]
                 ELSE LET f  == tf.frame_id
                          b1 == [tf.b EXCEPT !.page_table_ = EHT_Insert(@, page_id, f),
                                             !.pages_[f] = [page_id_ |-> page_id, pin_count_ |-> 1,
                                                            is_dirty_ |-> FALSE, data_ |-> ZeroData]]
                      IN  With(Touch(b1, f), LAMBDA b2 :
                              [b |-> [b2 EXCEPT !.pages_[f].data_ = DiskRead(b2, page_id)],
                               frame |-> f])))

\* a pool whose UnpinPage reports success without giving the pin back
UnpinKeepsPin(b, page_id, is_dirty) ==
    With(EHT_Find(b.page_table_, page_id), LAMBDA hit :
        IF ~hit.found \/ b.pages_[hit.value].pin_count_ = 0 THEN [b |-> b, ret |-> FALSE]
        ELSE [b |-> [b EXCEPT !.pages_[hit.value].is_dirty_ = is_dirty], ret |-> TRUE])

\* BufferPoolManagerInstance::UnpinPgImp: [b, ret]
UnpinPgImp(b, page_id, is_dirty) ==
    With(EHT_Find(b.page_table_, page_id), LAMBDA hit :
        IF ~hit.found \/ b.pages_[hit.value].pin_count_ = 0 THEN [b |-> b, ret |-> FALSE]
        ELSE LET f  == hit.value
                 b1 == [b EXCEPT !.pages_[f].pin_count_ = @ - 1]
                 b2 == IF b.pages_[f].pin_count_ - 1 = 0
                       THEN [b1 EXCEPT !.replacer_ = LRUK_SetEvictable(@, f, TRUE)]
                       ELSE b1
             IN  [b |-> [b2 EXCEPT !.pages_[f].is_dirty_ = is_dirty], ret |-> TRUE])

\* BufferPoolManagerInstance::FlushPgImp, the latch aside: [b, ret]
FlushPgImp(b, page_id) ==
    With(EHT_Find(b.page_table_, page_id), LAMBDA hit :
        IF hit.value = NullFrame THEN [b |-> b, ret |-> FALSE]
        ELSE [b |-> [DiskWrite(b, page_id, b.pages_[hit.value].data_)
                       EXCEPT !.pages_[hit.value].is_dirty_ = FALSE],
              ret |-> TRUE])

\* the pages the loop of FlushAllPgsImp passes to FlushPgImp
FlushAllTargets(b) ==
    {i \in 0..(b.next_page_id_ - 1) : EHT_Find(b.page_table_, i).value # NullFrame}

\* the loop of FlushAllPgsImp when the nested lock of the latch goes through
RECURSIVE FlushAllLoop(_, _)
FlushAllLoop(b, i) ==
    IF i >= b.next_page_id_ THEN b
    ELSE FlushAllLoop(IF i \in FlushAllTargets(b) THEN FlushPgImp(b, i).b ELSE b, i + 1)

\* BufferPoolManagerInstance::DeletePgImp: [b, ret, threw]; threw: the exception
\* of LRUKReplacer::Remove leaves the call
DeletePgImp(b, page_id) ==
    With(EHT_Find(b.page_table_, page_id).value, LAMBDA f :
        IF f = NullFrame THEN [b |-> b, ret |-> TRUE, threw |-> FALSE]
        ELSE IF b.pages_[f].pin_count_ > 0 THEN [b |-> b, ret |-> FALSE, threw |-> FALSE]
        ELSE LET pg == b.pages_[f]
                 b1 == IF pg.is_dirty_
                       THEN [DiskWrite(b, pg.page_id_, pg.data_) EXCEPT !.pages_[f].is_dirty_ = FALSE]
                       ELSE b
             IN  With([b1 EXCEPT !.page_table_ = EHT_Remove(@, page_id).t], LAMBDA b2 :
                 With(LRUK_Remove(b2.replacer_, f), LAMBDA rm :
                     IF rm.threw THEN [b |-> b2, ret |-> FALSE, threw |-> TRUE]
                     ELSE [b |-> [b2 EXCEPT !.replacer_ = rm.r,
                                            !.free_list_ = Append(@, f),
                                            !.pages_[f] = FreshPage],
                           ret |-> TRUE, threw |-> FALSE])))

-----------------------------------------------------------------------------
(* B+ tree pages.  The data_ of a page that holds a node is a record:       *)
(* page_type_, page_id_, parent_page_id_, max_size_, array_ (the entries up *)
(* to size_, slot 0 first) and, for a leaf, next_page_id_.  A leaf entry is *)
(* [key, value]; an internal entry is [key, value] with value a page id and *)
(* the key of slot 0 unused (0 in fresh memory).  The header page's data_   *)
(* is [records], index_name -> root_page_id.                                *)

HEADER_PAGE_ID == 0

PageType(d) == IF "page_type_" \in DOMAIN d THEN d.page_type_ ELSE "INVALID_INDEX_PAGE"
IsLeafPage(d) == PageType(d) = "LEAF_PAGE"
IsNode(d) == PageType(d) \in {"LEAF_PAGE", "INTERNAL_PAGE"}

\* what the node fields of page bytes read as: the node, or for bytes that hold
\* no node the zero fields of fresh memory
NodeView(d) ==
    IF IsNode(d) THEN d
    ELSE [page_type_ |-> "INVALID_INDEX_PAGE", page_id_ |-> 0, parent_page_id_ |-> 0,
          max_size_ |-> 0, next_page_id_ |-> 0, array_ |-> <<>>]

GetSize(d) == Len(d.array_)
GetMinSize(d) == (d.max_size_ + 1) \div 2
IsRootPage(d) == d.parent_page_id_ = INVALID_PAGE_ID
SetParentPageId(d, parent_id) == [d EXCEPT !.parent_page_id_ = parent_id]
DropLast(d) == [d EXCEPT !.array_ = SubSeq(@, 1, Len(@) - 1)]     \* IncreaseSize(-1)

\* the entry a read of array_[index] finds; fresh memory past the entries
ZeroEntry == [key |-> 0, value |-> 0]
EntryAt(d, index) ==
    IF index >= 0 /\ index < Len(d.array_) THEN d.array_[index + 1] ELSE ZeroEntry

InsertAt(s, i, e) == SubSeq(s, 1, i - 1) \o <<e>> \o SubSeq(s, i, Len(s))

(* B_PLUS_TREE_LEAF_PAGE *)

Leaf_Init(page_id, parent_id, max_size) ==
    [page_type_ |-> "LEAF_PAGE", page_id_ |-> page_id, parent_page_id_ |-> parent_id,
     max_size_ |-> max_size, next_page_id_ |-> INVALID_PAGE_ID, array_ |-> <<>>]

\* the first index whose key is >= key, GetSize() if there is none
Leaf_KeyIndex(d, key) ==
    Cardinality({i \in 1..Len(d.array_) : d.array_[i].key < key})

\* [found, value]
Leaf_LookUp(d, key) ==
    LET e == EntryAt(d, Leaf_KeyIndex(d, key))
    IN  IF Leaf_KeyIndex(d, key) < GetSize(d) /\ e.key = key
        THEN [found |-> TRUE, value |-> e.value]
        ELSE [found |-> FALSE, value |-> 0]

\* inserts in key order unless the key is there; the caller reads the new size
Leaf_Insert(d, key, value) ==
    IF Leaf_LookUp(d, key).found THEN d
    ELSE [d EXCEPT !.array_ = InsertAt(@, Leaf_KeyIndex(d, key) + 1,
                                       [key |-> key, value |-> value])]

\* [ok, d]
Leaf_Remove(d, key) ==
    IF Leaf_LookUp(d, key).found
    THEN [ok |-> TRUE, d |-> [d EXCEPT !.array_ = RemoveAt(@, Leaf_KeyIndex(d, key) + 1)]]
    ELSE [ok |-> FALSE, d |-> d]

\* the upper half moves to the new leaf: [d, new_leaf]
Leaf_MoveHalfTo(d, new_leaf) ==
    LET new_size == GetMinSize(d)
    IN  [d |-> [d EXCEPT !.array_ = SubSeq(@, 1, new_size)],
         new_leaf |-> [new_leaf EXCEPT !.array_ = @ \o SubSeq(d.array_, new_size + 1, Len(d.array_))]]

\* every entry moves to the leaf on the left, which takes over the link: [d, to]
Leaf_MoveAllTo(d, to) ==
    [d |-> [d EXCEPT !.array_ = <<>>],
     to |-> [to EXCEPT !.array_ = @ \o d.array_, !.next_page_id_ = d.next_page_id_]]

(* B_PLUS_TREE_INTERNAL_PAGE, the part that stays within the page *)

Internal_Init(page_id, parent_id, max_size) ==
    [page_type_ |-> "INTERNAL_PAGE", page_id_ |-> page_id, parent_page_id_ |-> parent_id,
     max_size_ |-> max_size, array_ |-> <<>>]

KeyAt(d, index) == EntryAt(d, index).key
ValueAt(d, index) == EntryAt(d, index).value
SetKeyAt(d, index, key) ==
    IF index >= 0 /\ index < Len(d.array_) THEN [d EXCEPT !.array_[index + 1].key = key] ELSE d

\* std::find_if over array_ .. array_ + GetSize(): GetSize() if no entry has the value
ValueIndex(d, value) ==
    IF \E i \in 1..Len(d.array_) : d.array_[i].value = value
    THEN (CHOOSE i \in 1..Len(d.array_) :
             /\ d.array_[i].value = value
             /\ \A j \in 1..(i - 1) : d.array_[j].value # value) - 1
    ELSE Len(d.array_)

\* std::lower_bound(first, first + len, key) by halving, as the library does;
\* it is the first slot whose key is >= key when the keys are in order
RECURSIVE LowerBound(_, _, _, _)
LowerBound(d, first, len, key) ==
    IF len <= 0 THEN first
    ELSE LET half == len \div 2
         IN  IF KeyAt(d, first + half) < key
             THEN LowerBound(d, first + half + 1, len - half - 1, key)
             ELSE LowerBound(d, first, half, key)

\* BPlusTreeInternalPage::LookUp: the child for key
LookUp(d, key) ==
    LET taeget == LowerBound(d, 1, GetSize(d) - 1, key)
    IN  IF taeget = GetSize(d) THEN ValueAt(d, GetSize(d) - 1)
        ELSE IF KeyAt(d, taeget) = key THEN ValueAt(d, taeget)
        ELSE ValueAt(d, taeget - 1)

InsertNodeAfter(d, new_page_id, key, old_page_id) ==
    [d EXCEPT !.array_ = InsertAt(@, ValueIndex(d, old_page_id) + 2,
                                  [key |-> key, value |-> new_page_id])]

\* BPlusTreeInternalPage::Remove: the entries after index move down (none when
\* index is past them) and the size drops by one
Internal_Remove(d, index) ==
    IF index < Len(d.array_)
    THEN [d EXCEPT !.array_ = RemoveAt(@, index + 1)]
    ELSE DropLast(d)

(* HeaderPage: InsertRecord refuses a name that is there, UpdateRecord one   *)
(* that is not.                                                             *)

IndexName == "index"

Records(d) == IF "records" \in DOMAIN d THEN d.records ELSE <<>>

InsertRecord(d, name, root_id) ==
    IF name \in DOMAIN Records(d) THEN d
    ELSE [records |-> (name :> root_id) @@ Records(d)]

UpdateRecord(d, name, root_id) ==
    IF name \in DOMAIN Records(d) THEN [records |-> (name :> root_id) @@ Records(d)]
    ELSE d

-----------------------------------------------------------------------------
(* BPlusTree.  A call works on m = [b, root_page_id_, st, overlap,          *)
(* root_page_id_latch_]: the buffer pool, the tree's root_page_id_, the     *)
(* holder of the tree's latch (0: free), and st, "ok" until the call stops  *)
(* the process ("crashed": a null or wild pointer is followed, or an        *)
(* assertion fails), leaves by an exception with root_page_id_latch_ held   *)
(* ("threw"), or never ends ("hung").  overlap is what std::move does when  *)
(* its destination lies inside its source, which the library leaves         *)
(* undefined: "forward" (element by element from the front) or "memmove".   *)
(* A Page pointer is the frame id.                                          *)

Ok(m) == m.st = "ok"
Stop(m, how) == IF Ok(m) THEN [m EXCEPT !.st = how] ELSE m

\* root_page_id_latch_ (a ReaderWriterLatch): the holder, 0 when it is free.  A
\* lock call on a latch that is held never returns.
WLock(m) ==
    IF ~Ok(m) THEN m
    ELSE IF m.root_page_id_latch_ # 0 THEN Stop(m, "hung")
    ELSE [m EXCEPT !.root_page_id_latch_ = 1]
WUnlock(m) == IF Ok(m) THEN [m EXCEPT !.root_page_id_latch_ = 0] ELSE m
RLock(m) == WLock(m)
RUnlock(m) == WUnlock(m)

\* buffer_pool_manager_->FetchPage(page_id), the result then dereferenced: [m, f]
T_Fetch(m, page_id) ==
    IF ~Ok(m) THEN [m |-> m, f |-> NullFrame]
    ELSE IF page_id \notin PageIds(m.b) THEN [m |-> Stop(m, "crashed"), f |-> NullFrame]
    ELSE With(FetchPgImp(m.b, page_id), LAMBDA r :
             IF r.frame = NullFrame THEN [m |-> Stop(m, "crashed"), f |-> NullFrame]
             ELSE [m |-> [m EXCEPT !.b = r.b], f |-> r.frame])

T_Unpin(m, page_id, is_dirty) ==
    IF ~Ok(m) THEN m ELSE [m EXCEPT !.b = UnpinPgImp(@, page_id, is_dirty).b]

\* the node a pointer into a frame's bytes reads, and a write through it
T_Node(m, f) == IF f = NullFrame THEN NodeView(ZeroData) ELSE NodeView(m.b.pages_[f].data_)
T_SetData(m, f, d) ==
    IF ~Ok(m) \/ f = NullFrame THEN m ELSE [m EXCEPT !.b.pages_[f].data_ = d]

\* BPlusTree::UpdateRootPageId
UpdateRootPageId(m, insert_record) ==
    With(T_Fetch(m, HEADER_PAGE_ID), LAMBDA r :
        LET d == IF r.f = NullFrame THEN ZeroData ELSE r.m.b.pages_[r.f].data_
            d2 == IF insert_record # 0
                  THEN InsertRecord(d, IndexName, r.m.root_page_id_)
                  ELSE UpdateRecord(d, IndexName, r.m.root_page_id_)
        IN  T_Unpin(T_SetData(r.m, r.f, d2), HEADER_PAGE_ID, TRUE))

\* the loop of BPlusTree::FindLeaf; a descent longer than there are pages never ends
RECURSIVE FindLeafFrom(_, _, _, _)
FindLeafFrom(m, f, key, depth) ==
    IF ~Ok(m) THEN [m |-> m, f |-> NullFrame]
    ELSE IF IsLeafPage(T_Node(m, f)) THEN [m |-> m, f |-> f]
    ELSE IF depth > Cardinality(PageIds(m.b)) THEN [m |-> Stop(m, "hung"), f |-> NullFrame]
    ELSE With(T_Fetch(m, LookUp(T_Node(m, f), key)), LAMBDA r :
             FindLeafFrom(r.m, r.f, key, depth + 1))

\* BPlusTree::FindLeaf: [m, f]
FindLeaf(m, key) ==
    IF m.root_page_id_ = INVALID_PAGE_ID THEN [m |-> Stop(m, "crashed"), f |-> NullFrame]
    ELSE With(T_Fetch(m, m.root_page_id_), LAMBDA r :
             FindLeafFrom(r.m, r.f, key, 0))

\* BPlusTree::GetValue: [m, ret, value]
BPT_GetValue(m0, key) ==
    With(RLock(m0), LAMBDA m :
        With(FindLeaf(m, key), LAMBDA fl :
            LET leaf_page == T_Node(fl.m, fl.f)
                lk == Leaf_LookUp(leaf_page, key)
            IN  IF ~Ok(fl.m) THEN [m |-> fl.m, ret |-> FALSE, value |-> 0]
                ELSE [m |-> RUnlock(T_Unpin(fl.m, leaf_page.page_id_, FALSE)),
                      ret |-> lk.found, value |-> lk.value]))

\* the loop of BPlusTreeInternalPage::CopyData: each copied child is fetched,
\* given the page as its parent and unpinned
RECURSIVE Reparent(_, _, _)
Reparent(m, items, parent_id) ==
    IF items = <<>> \/ ~Ok(m) THEN m
    ELSE With(T_Fetch(m, Head(items).value), LAMBDA r :
         With(T_SetData(r.m, r.f, SetParentPageId(T_Node(r.m, r.f), parent_id)), LAMBDA m1 :
             Reparent(IF Ok(r.m) THEN T_Unpin(m1, m1.b.pages_[r.f].page_id_, TRUE) ELSE r.m,
                      Tail(items), parent_id)))

\* BPlusTreeInternalPage::CopyData on the page in frame f
CopyData(m, f, items) ==
    LET d == T_Node(m, f)
    IN  Reparent(T_SetData(m, f, [d EXCEPT !.array_ = @ \o items]), items, d.page_id_)

\* BPlusTreeInternalPage::MoveHalfTo, from the page in frame f to the one in nf
MoveHalfTo(m, f, nf) ==
    LET d == T_Node(m, f)
        new_size == GetMinSize(d)
    IN  With(CopyData(m, nf, SubSeq(d.array_, new_size + 1, Len(d.array_))), LAMBDA m1 :
            T_SetData(m1, f, [T_Node(m1, f) EXCEPT !.array_ = SubSeq(@, 1, new_size)]))

\* BPlusTreeInternalPage::MoveAllTo
MoveAllTo(m, f, to) ==
    With(CopyData(m, to, T_Node(m, f).array_), LAMBDA m1 :
        T_SetData(m1, f, [T_Node(m1, f) EXCEPT !.array_ = <<>>]))

\* BPlusTreeInternalPage::InsertStart; std::move(array_, array_ + size, array_ + 1)
\* copied from the front leaves the old slot 0 in every slot it writes
InsertStart(m, f, key, value) ==
    LET d == T_Node(m, f)
        moved == IF m.overlap = "forward"
                 THEN [i \in 1..Len(d.array_) |-> d.array_[1]]
                 ELSE d.array_
    IN  Reparent(T_SetData(m, f, [d EXCEPT !.array_ = <<[key |-> key, value |-> value]>> \o moved]),
                 <<[key |-> key, value |-> value]>>, d.page_id_)

\* BPlusTreeInternalPage::InsertEnd
InsertEnd(m, f, key, value) ==
    LET d == T_Node(m, f)
    IN  Reparent(T_SetData(m, f, [d EXCEPT !.array_ = Append(@, [key |-> key, value |-> value])]),
                 <<[key |-> key, value |-> value]>>, d.page_id_)

\* BPlusTree::Split of the node in frame f: [m, f], f the new node's frame
Split(m, f) ==
    IF ~Ok(m) THEN [m |-> m, f |-> NullFrame]
    ELSE With(NewPgImp(m.b), LAMBDA n :
         IF n.frame = NullFrame THEN [m |-> Stop(m, "threw"), f |-> NullFrame]
         ELSE With([m EXCEPT !.b = n.b], LAMBDA m1 :
              With(T_Node(m1, f), LAMBDA page :
                  IF IsLeafPage(page)
                  THEN With(Leaf_MoveHalfTo(page, Leaf_Init(n.page_id, page.parent_page_id_,
                                                            LeafMaxSize)), LAMBDA mv :
                           [m |-> T_SetData(T_SetData(m1, f, mv.d), n.frame, mv.new_leaf),
                            f |-> n.frame])
                  ELSE [m |-> MoveHalfTo(T_SetData(m1, n.frame,
                                                   Internal_Init(n.page_id, page.parent_page_id_,
                                                                 InternalMaxSize)),
                                         f, n.frame),
                        f |-> n.frame])))

\* BPlusTree::InsertToParent; old_page and split_page are the frames old_f and split_f
RECURSIVE InsertToParent(_, _, _, _)
InsertToParent(m, old_f, split_f, split_key) ==
    IF ~Ok(m) THEN m
    ELSE IF IsRootPage(T_Node(m, old_f))
    THEN With(NewPgImp(m.b), LAMBDA n :
         IF n.frame = NullFrame THEN Stop(m, "crashed")
         ELSE With([m EXCEPT !.b = n.b, !.root_page_id_ = n.page_id], LAMBDA m1 :
              With(T_SetData(m1, n.frame,
                             [Internal_Init(n.page_id, INVALID_PAGE_ID, InternalMaxSize) EXCEPT
                                 !.array_ = <<[key |-> 0, value |-> T_Node(m1, old_f).page_id_],
                                              [key |-> split_key,
                                               value |-> T_Node(m1, split_f).page_id_]>>]),
                   LAMBDA m2 :
              With(T_SetData(m2, old_f, SetParentPageId(T_Node(m2, old_f), n.page_id)), LAMBDA m3 :
              With(T_SetData(m3, split_f, SetParentPageId(T_Node(m3, split_f), n.page_id)),
                   LAMBDA m4 :
                  T_Unpin(T_Fetch(UpdateRootPageId(T_Fetch(m4, 6).m, 0), 6).m,
                          n.page_id, TRUE))))))
    ELSE With(T_Node(m, old_f).parent_page_id_, LAMBDA parent_id :
         With(T_Fetch(m, parent_id), LAMBDA r :
         With(T_Node(r.m, r.f), LAMBDA parent :
             IF ~Ok(r.m) THEN r.m
             ELSE IF PageType(parent) # "INTERNAL_PAGE" THEN Stop(r.m, "crashed")
             ELSE With(T_SetData(r.m, r.f,
                                 InsertNodeAfter(parent, T_Node(r.m, split_f).page_id_, split_key,
                                                 T_Node(r.m, old_f).page_id_)), LAMBDA m1 :
                  IF GetSize(parent) < InternalMaxSize THEN T_Unpin(m1, parent_id, TRUE)
                  ELSE With(Split(m1, r.f), LAMBDA sp :
                       With(InsertToParent(sp.m, r.f, sp.f, KeyAt(T_Node(sp.m, sp.f), 0)),
                            LAMBDA m2 :
                       With(T_Unpin(m2, parent_id, TRUE), LAMBDA m3 :
                           T_Unpin(m3, T_Node(m3, sp.f).page_id_, TRUE))))))))

\* BPlusTree::Insert: [m, ret]
BPT_Insert(m0, key, value) ==
    With(WLock(m0), LAMBDA m :
        IF m.root_page_id_ = INVALID_PAGE_ID
        THEN With(NewPgImp(m.b), LAMBDA n :
             IF n.frame = NullFrame THEN [m |-> Stop(m, "threw"), ret |-> FALSE]
             ELSE With([m EXCEPT !.b = n.b, !.root_page_id_ = n.page_id], LAMBDA m1 :
                  With(T_SetData(m1, n.frame,
                                 Leaf_Insert(Leaf_Init(n.page_id, INVALID_PAGE_ID, LeafMaxSize),
                                             key, value)), LAMBDA m2 :
                      [m |-> WUnlock(UpdateRootPageId(T_Unpin(m2, n.page_id, TRUE), 1)),
                       ret |-> TRUE])))
        ELSE With(FindLeaf(m, key), LAMBDA fl :
             With(T_Node(fl.m, fl.f), LAMBDA leaf_page :
             With(Leaf_Insert(leaf_page, key, value), LAMBDA inserted :
                 IF ~Ok(fl.m) THEN [m |-> fl.m, ret |-> FALSE]
                 ELSE IF GetSize(inserted) = GetSize(leaf_page)
                 THEN [m |-> WUnlock(T_Unpin(fl.m, leaf_page.page_id_, FALSE)), ret |-> FALSE]
                 ELSE With(T_SetData(fl.m, fl.f, inserted), LAMBDA m1 :
                      IF GetSize(inserted) <= LeafMaxSize
                      THEN [m |-> WUnlock(T_Unpin(m1, leaf_page.page_id_, TRUE)), ret |-> TRUE]
                      ELSE With(Split(m1, fl.f), LAMBDA sp :
                           With(T_SetData(sp.m, sp.f, [T_Node(sp.m, sp.f) EXCEPT
                                              !.next_page_id_ = T_Node(sp.m, fl.f).next_page_id_]),
                                LAMBDA m2 :
                           With(T_SetData(m2, fl.f, [T_Node(m2, fl.f) EXCEPT
                                              !.next_page_id_ = T_Node(m2, sp.f).page_id_]),
                                LAMBDA m3 :
                           With(InsertToParent(m3, fl.f, sp.f, KeyAt(T_Node(m3, sp.f), 0)),
                                LAMBDA m4 :
                           With(T_Unpin(m4, T_Node(m4, fl.f).page_id_, TRUE), LAMBDA m5 :
                               [m |-> WUnlock(T_Unpin(m5, T_Node(m5, sp.f).page_id_, TRUE)),
                                ret |-> FALSE]))))))))))

\* BPlusTree::DistributeLeft: the last entry of the left sibling (frame df) moves
\* to remove_page (frame rf); pf is the parent's frame
DistributeLeft(m, df, rf, pf, index) ==
    With(T_Node(m, df), LAMBDA dp :
        LET last_index == GetSize(dp) - 1
            key == KeyAt(dp, last_index)
        IN  With(IF IsLeafPage(dp)
                 THEN T_SetData(m, rf, Leaf_Insert(T_Node(m, rf), key, ValueAt(dp, last_index)))
                 ELSE InsertStart(m, rf, key, ValueIndex(dp, last_index)), LAMBDA m1 :
            With(T_SetData(m1, df, DropLast(T_Node(m1, df))), LAMBDA m2 :
                T_SetData(m2, pf, SetKeyAt(T_Node(m2, pf), index, key)))))

\* BPlusTree::DistributeRight: the first entry of the right sibling (frame df)
\* moves to merge_page (frame mf)
DistributeRight(m, df, mf, pf, index) ==
    With(T_Node(m, df), LAMBDA dp :
        LET leaf == IsLeafPage(dp)
            key == IF leaf THEN KeyAt(dp, 0) ELSE KeyAt(dp, 1)
        IN  With(IF leaf
                 THEN T_SetData(m, mf, Leaf_Insert(T_Node(m, mf), key, ValueAt(dp, 0)))
                 ELSE InsertEnd(m, mf, key, ValueAt(dp, 1)), LAMBDA m1 :
            With(IF leaf
                 THEN T_SetData(m1, df, Leaf_Remove(T_Node(m1, df), key).d)
                 ELSE T_SetData(m1, df, Internal_Remove(T_Node(m1, df), 1)), LAMBDA m2 :
            With(T_SetData(m2, pf, SetKeyAt(T_Node(m2, pf), index + 1,
                                            KeyAt(T_Node(m2, df), IF leaf THEN 0 ELSE 1))),
                 LAMBDA m3 :
                T_SetData(m3, pf, SetKeyAt(T_Node(m3, pf), index, key))))))

RECURSIVE ResdistributeOrMerge(_, _)

\* BPlusTree::Merge: remove_page (frame rf) empties into left_page (frame lf)
Merge(m, lf, rf, pf, index) ==
    With(IF IsLeafPage(T_Node(m, lf))
         THEN With(Leaf_MoveAllTo(T_Node(m, rf), T_Node(m, lf)), LAMBDA mv :
                  T_SetData(T_SetData(m, rf, mv.d), lf, mv.to))
         ELSE MoveAllTo(m, rf, lf), LAMBDA m1 :
    With(T_SetData(m1, pf, Internal_Remove(T_Node(m1, pf), index)), LAMBDA m2 :
        IF ~Ok(m2) THEN m2
        ELSE IF GetSize(T_Node(m2, pf)) < GetMinSize(T_Node(m2, pf))
        THEN ResdistributeOrMerge(m2, pf)
        ELSE m2))

\* BPlusTree::ResdistributeOrMerge of the node in frame f
ResdistributeOrMerge(m, f) ==
    IF ~Ok(m) THEN m
    ELSE With(T_Node(m, f), LAMBDA remove_page :
    IF IsRootPage(remove_page)
    THEN IF ~IsLeafPage(remove_page) /\ GetSize(remove_page) = 1
         THEN With(T_Fetch(m, ValueAt(remove_page, 0)), LAMBDA r :
              With(T_Node(r.m, r.f), LAMBDA only_chirld :
              With(T_SetData(r.m, r.f, SetParentPageId(only_chirld, INVALID_PAGE_ID)), LAMBDA m1 :
                  IF ~Ok(r.m) THEN r.m
                  ELSE T_Unpin(UpdateRootPageId([m1 EXCEPT !.root_page_id_ = only_chirld.page_id_], 0),
                               only_chirld.page_id_, TRUE))))
         ELSE IF IsLeafPage(remove_page) /\ GetSize(remove_page) = 0
         THEN [m EXCEPT !.root_page_id_ = INVALID_PAGE_ID]
         ELSE m
    ELSE With(T_Fetch(m, remove_page.parent_page_id_), LAMBDA pr :
         With(T_Node(pr.m, pr.f), LAMBDA parent_page :
         With(ValueIndex(parent_page, remove_page.page_id_), LAMBDA index :
         LET pf == pr.f
             has_left == index > 0
             has_right == index < GetSize(parent_page) - 1
         IN  IF ~Ok(pr.m) THEN pr.m
             ELSE
             \* lines 475-485
             With(IF has_left THEN T_Fetch(pr.m, ValueAt(parent_page, index - 1))
                  ELSE [m |-> pr.m, f |-> NullFrame], LAMBDA lr :
             With(T_Node(lr.m, lr.f), LAMBDA left_page :
             IF has_left /\ Ok(lr.m) /\ GetSize(left_page) > GetMinSize(left_page)
             THEN T_Unpin(T_Unpin(DistributeLeft(lr.m, lr.f, f, pf, index),
                                  parent_page.page_id_, TRUE),
                          left_page.page_id_, TRUE)
             ELSE
             \* lines 487-497
             With(IF has_left THEN T_Unpin(lr.m, left_page.page_id_, FALSE) ELSE pr.m, LAMBDA mA :
             With(IF has_right THEN T_Fetch(mA, ValueAt(parent_page, index + 1))
                  ELSE [m |-> mA, f |-> NullFrame], LAMBDA rr :
             With(T_Node(rr.m, rr.f), LAMBDA right_page :
             IF has_right /\ Ok(rr.m) /\ GetSize(right_page) > GetMinSize(right_page)
             THEN T_Unpin(T_Unpin(DistributeRight(rr.m, rr.f, f, pf, index),
                                  right_page.page_id_, TRUE),
                          remove_page.page_id_, TRUE)
             ELSE
             With(IF has_right THEN T_Unpin(rr.m, right_page.page_id_, FALSE) ELSE mA, LAMBDA mB :
             \* lines 499-507
             IF has_left
             THEN With(T_Fetch(mB, ValueAt(parent_page, index - 1)), LAMBDA lr2 :
                      T_Unpin(T_Unpin(Merge(lr2.m, lr2.f, f, pf, index),
                                      T_Node(lr2.m, lr2.f).page_id_, TRUE),
                              remove_page.page_id_, TRUE))
             \* lines 509-517
             ELSE IF has_right
             THEN With(T_Fetch(mB, ValueAt(parent_page, index + 1)), LAMBDA rr2 :
                      T_Unpin(T_Unpin(Merge(rr2.m, f, rr2.f, pf, index + 1),
                                      T_Node(rr2.m, rr2.f).page_id_, TRUE),
                              remove_page.page_id_, TRUE))
             ELSE T_Unpin(mB, parent_page.page_id_, FALSE)))))))))))

\* BPlusTree::Remove
BPT_Remove(m0, key) ==
    With(WLock(m0), LAMBDA m :
        IF m.root_page_id_ = INVALID_PAGE_ID THEN WUnlock(m)
        ELSE With(FindLeaf(m, key), LAMBDA fl :
             With(Leaf_Remove(T_Node(fl.m, fl.f), key), LAMBDA rm :
                 IF ~Ok(fl.m) THEN fl.m
                 ELSE IF ~rm.ok THEN WUnlock(fl.m)
                 ELSE With(T_SetData(fl.m, fl.f, rm.d), LAMBDA m1 :
                      IF GetSize(rm.d) >= GetMinSize(rm.d) THEN WUnlock(m1)
                      ELSE With(ResdistributeOrMerge(m1, fl.f), LAMBDA m2 :
                               WUnlock(T_Unpin(m2, T_Node(m2, fl.f).page_id_, TRUE)))))))

\* the loop of BPlusTree::Begin() (rightmost = FALSE, slot 0) and of
\* BPlusTree::End() (rightmost = TRUE, the last slot): the child is fetched and
\* unpinned at once, and the pointer into its frame is kept: [m, f]
RECURSIVE DescendEdge(_, _, _, _)
DescendEdge(m, f, rightmost, depth) ==
    IF ~Ok(m) THEN [m |-> m, f |-> NullFrame]
    ELSE IF IsLeafPage(T_Node(m, f)) THEN [m |-> m, f |-> f]
    ELSE IF depth > Cardinality(PageIds(m.b)) THEN [m |-> Stop(m, "hung"), f |-> NullFrame]
    ELSE With(ValueAt(T_Node(m, f), IF rightmost THEN GetSize(T_Node(m, f)) - 1 ELSE 0),
              LAMBDA page_id :
         With(T_Fetch(m, page_id), LAMBDA r :
             DescendEdge(T_Unpin(r.m, page_id, FALSE), r.f, rightmost, depth + 1)))

\* IndexIterator(buffer_pool_manager, leaf, index): the iterator keeps the
\* pointer and the slot; leaf is the page id the pointer reads, INVALID for
\* the iterator of an empty tree
IndexIterator(m, f, index) ==
    [leaf |-> IF f = NullFrame THEN INVALID_PAGE_ID ELSE T_Node(m, f).page_id_,
     f |-> f, index |-> index]

\* BPlusTree::Begin(): [m, it]
BPT_Begin(m0) ==
    With(RLock(m0), LAMBDA m :
        IF m.root_page_id_ = INVALID_PAGE_ID
        THEN [m |-> RUnlock(m), it |-> IndexIterator(m, NullFrame, 0)]
        ELSE With(T_Fetch(m, m.root_page_id_), LAMBDA r :
             With(DescendEdge(r.m, r.f, FALSE, 0), LAMBDA d :
                 [m |-> RUnlock(d.m), it |-> IndexIterator(d.m, d.f, 0)])))

\* BPlusTree::Begin(key): [m, it]
BPT_BeginKey(m0, key) ==
    With(RLock(m0), LAMBDA m :
        IF m.root_page_id_ = INVALID_PAGE_ID
        THEN [m |-> RUnlock(m), it |-> IndexIterator(m, NullFrame, 0)]
        ELSE With(FindLeaf(m, key), LAMBDA fl :
                 [m |-> RUnlock(fl.m), it |-> IndexIterator(fl.m, fl.f, Leaf_KeyIndex(T_Node(fl.m, fl.f), key))]))

\* BPlusTree::End(): [m, it]
BPT_End(m0) ==
    With(RLock(m0), LAMBDA m :
        IF m.root_page_id_ = INVALID_PAGE_ID
        THEN [m |-> RUnlock(m), it |-> IndexIterator(m, NullFrame, 0)]
        ELSE With(T_Fetch(m, m.root_page_id_), LAMBDA r :
             With(DescendEdge(r.m, r.f, TRUE, 0), LAMBDA d :
                 [m |-> RUnlock(d.m), it |-> IndexIterator(d.m, d.f, GetSize(T_Node(d.m, d.f)))])))

-----------------------------------------------------------------------------
(* Join executors.  A tuple is the sequence of its column values, a positive *)
(* integer or NULL; a child executor is the sequence of the tuples it has    *)
(* yet to produce.  The left child has one column, the right side two: the   *)
(* join column and a payload.  An executor is a record of its fields, with   *)
(* out, the tuples its Next calls have produced, and ret, what the last Next *)
(* returned.                                                                 *)

NULL == 0
NullRow(n) == [i \in 1..n |-> NULL]     \* ValueFactory::GetNullValueByType per column

\* the elements of a set of integers, ascending
RECURSIVE Ascending(_)
Ascending(S) ==
    IF S = {} THEN <<>>
    ELSE With(CHOOSE x \in S : \A y \in S : x <= y, LAMBDA x : <<x>> \o Ascending(S \ {x}))

\* BPlusTreeIndex::ScanKey on the index over the join column of the inner
\* table: the RIDs (positions in the table heap) of the tuples with the key
ScanKey(table, key) == Ascending({rid \in 1..Len(table) : table[rid][1] = key})

\* TableHeap::GetTuple
GetTuple(table, rid) == IF rid \in 1..Len(table) THEN table[rid] ELSE NullRow(2)

\* what rids[0] reads when rids is empty, which the library leaves undefined:
\* the process stops on the access (Fault), or the bytes read as some RID
Fault == 0 - 1
RawRids == {Fault} \cup (0..MaxRightRows)

\* NestIndexJoinExecutor after its constructor and Init()
NIJ_Init(join_type, child, table) ==
    [kind |-> "nij", join_type |-> join_type, child |-> child, table |-> table,
     out |-> <<>>, log |-> <<>>, st |-> "ok", ret |-> TRUE, calls |-> 0]

\* one entry of log: the left tuple taken from the child, the RIDs Next handed
\* to GetTuple for it, whether it read an element of an empty rids, and the
\* tuple it produced (<<>> if none)
Probe(left_tuple, fetched, wild, row) ==
    [left |-> left_tuple, fetched |-> fetched, wild |-> wild, row |-> row]

\* NestIndexJoinExecutor::Next; raw is what rids[0] of an empty rids reads
RECURSIVE NIJ_Next(_, _)
NIJ_Next(e, raw) ==
    IF e.child = <<>> THEN [e EXCEPT !.ret = FALSE]
    ELSE With(Head(e.child), LAMBDA left_tuple :
         With(ScanKey(e.table, left_tuple[1]), LAMBDA rids :
             IF rids # <<>>
             THEN With(left_tuple \o GetTuple(e.table, rids[1]), LAMBDA row :
                      [e EXCEPT !.child = Tail(@), !.out = Append(@, row), !.ret = TRUE,
                                !.log = Append(@, Probe(left_tuple, <<rids[1]>>, FALSE, row))])
             ELSE IF e.join_type = "LEFT"
             THEN IF raw = Fault
                  THEN [e EXCEPT !.child = Tail(@), !.st = "crashed", !.ret = FALSE,
                                 !.log = Append(@, Probe(left_tuple, <<>>, TRUE, <<>>))]
                  ELSE With(left_tuple \o NullRow(2), LAMBDA row :
                           [e EXCEPT !.child = Tail(@), !.out = Append(@, row), !.ret = TRUE,
                                     !.log = Append(@, Probe(left_tuple, <<raw>>, TRUE, row))])
             ELSE NIJ_Next([e EXCEPT !.child = Tail(@),
                                     !.log = Append(@, Probe(left_tuple, <<>>, FALSE, <<>>))], raw)))

\* plan_->Predicate().EvaluateJoin for the predicate left.x = right.x: a
\* comparison with NULL is NULL
EvaluateJoin(left_tuple, right_tuple) ==
    IF left_tuple[1] = NULL \/ right_tuple[1] = NULL THEN "null"
    ELSE IF left_tuple[1] = right_tuple[1] THEN "true" ELSE "false"

\* a Match that takes a NULL comparison for a match
MatchTakesNull(left_tuple, right_tuple) == EvaluateJoin(left_tuple, right_tuple) # "false"

\* NestedLoopJoinExecutor::Match
Match(left_tuple, right_tuple) ==
    With(EvaluateJoin(left_tuple, right_tuple), LAMBDA value : value # "null" /\ value = "true")

\* NestedLoopJoinExecutor after its constructor and Init(): the right child is
\* drained into right_tuples_
NLJ_Init(join_type, left, right) ==
    [kind |-> "nlj", join_type |-> join_type, child |-> left, right_tuples_ |-> right,
     right_tuple_idx_ |-> 0 - 1, left_tuple_ |-> <<>>, left |-> left, right |-> right,
     out |-> <<>>, ret |-> TRUE, calls |-> 0]

\* the for loop of Next: the first i from start on with a match, -1 if none
RECURSIVE FirstMatch(_, _, _)
FirstMatch(left_tuple, right_tuples, i) ==
    IF i >= Len(right_tuples) THEN 0 - 1
    ELSE IF Match(left_tuple, right_tuples[i + 1]) THEN i
    ELSE FirstMatch(left_tuple, right_tuples, i + 1)

\* NestedLoopJoinExecutor::Next
RECURSIVE NLJ_Next(_)
NLJ_Next(e) ==
    IF e.right_tuple_idx_ < 0 /\ e.child = <<>> THEN [e EXCEPT !.ret = FALSE]
    ELSE With(IF e.right_tuple_idx_ >= 0 THEN e
              ELSE [e EXCEPT !.left_tuple_ = Head(e.child), !.child = Tail(@)], LAMBDA e1 :
         With(FirstMatch(e1.left_tuple_, e1.right_tuples_,
                         IF e1.right_tuple_idx_ < 0 THEN 0 ELSE e1.right_tuple_idx_), LAMBDA i :
             IF i >= 0
             THEN [e1 EXCEPT !.out = Append(@, e1.left_tuple_ \o e1.right_tuples_[i + 1]),
                             !.right_tuple_idx_ = i + 1, !.ret = TRUE]
             ELSE IF e1.right_tuple_idx_ = 0 - 1 /\ e1.join_type = "LEFT"
             THEN [e1 EXCEPT !.out = Append(@, e1.left_tuple_ \o NullRow(2)), !.ret = TRUE]
             ELSE NLJ_Next([e1 EXCEPT !.right_tuple_idx_ = 0 - 1])))

\* NestedLoopJoinExecutor::Init on an executor that was initialized before:
\* both children restart, and the rows of the right child are pushed onto
\* right_tuples_; nothing clears right_tuples_, right_tuple_idx_ or left_tuple_
NLJ_InitAgain(e) ==
    [e EXCEPT !.child = e.left, !.right_tuples_ = @ \o e.right]

-----------------------------------------------------------------------------
(* IndexScan, Insert and Delete executors.  The table heap is the sequence  *)
(* of its slots, a RID the position of a slot; a slot is <<key, deleted>>.  *)
(* A row of the child of Insert is <<key, fits>>: fits = 0 marks a tuple    *)
(* too large for a page, which the heap refuses.  The child of Delete       *)
(* produces RIDs.  Every index is the set of its <<key, rid>> entries.      *)

\* IndexScanExecutor after its constructor and Init(): matches are the RIDs
\* the index returns for the scan
IndexScan_Init(matches, table) ==
    [kind |-> "iscan", rids_ |-> matches, rids_iter_ |-> 0, table |-> table,
     matches |-> matches, out |-> <<>>, ret |-> TRUE, calls |-> 0]

\* IndexScanExecutor::Init on an executor that was initialized before: ScanKey
\* pushes the RIDs onto rids_, which nothing clears
IndexScan_InitAgain(e) ==
    [e EXCEPT !.rids_ = @ \o e.matches, !.rids_iter_ = 0]

\* IndexScanExecutor::Next
IndexScan_Next(e) ==
    IF e.rids_iter_ < Len(e.rids_)
    THEN [e EXCEPT !.out = Append(@, GetTuple(e.table, e.rids_[e.rids_iter_ + 1])),
                   !.rids_iter_ = @ + 1, !.ret = TRUE]
    ELSE [e EXCEPT !.ret = FALSE]

\* Index::InsertEntry / DeleteEntry on every index of the table
InsertEntry(indexes, key, rid) == [i \in DOMAIN indexes |-> indexes[i] \cup {<<key, rid>>}]
DeleteEntry(indexes, key, rid) == [i \in DOMAIN indexes |-> indexes[i] \ {<<key, rid>>}]

\* TableHeap::InsertTuple: [ok, heap, rid]
InsertTuple(heap, tuple) ==
    IF tuple[2] = 0 THEN [ok |-> FALSE, heap |-> heap, rid |-> 0]
    ELSE [ok |-> TRUE, heap |-> Append(heap, <<tuple[1], 0>>), rid |-> Len(heap) + 1]

\* TableHeap::MarkDelete: [ok, heap]; a slot that is marked already is refused
MarkDelete(heap, rid) ==
    IF heap[rid][2] = 1 THEN [ok |-> FALSE, heap |-> heap]
    ELSE [ok |-> TRUE, heap |-> [heap EXCEPT ![rid] = <<@[1], 1>>]]

\* InsertExecutor after its constructor and Init(); done counts the rows the
\* heap has taken since the last Init
Insert_Init(rows, nidx) ==
    [kind |-> "insert", child |-> rows, rows |-> rows, heap |-> <<>>,
     indexes |-> [i \in 1..nidx |-> {}], is_end_ |-> FALSE, done |-> 0,
     out |-> <<>>, ret |-> TRUE, calls |-> 0]

\* the while loop of InsertExecutor::Next: [e, count]
RECURSIVE InsertLoop(_, _)
InsertLoop(e, count) ==
    IF e.child = <<>> THEN [e |-> e, count |-> count]
    ELSE With(Head(e.child), LAMBDA tuple :
         With(InsertTuple(e.heap, tuple), LAMBDA r :
             InsertLoop([e EXCEPT !.child = Tail(@), !.heap = r.heap,
                                   !.indexes = IF r.ok THEN InsertEntry(@, tuple[1], r.rid) ELSE @,
                                   !.done = IF r.ok THEN @ + 1 ELSE @],
                        count + 1)))

\* InsertExecutor::Next
Insert_Next(e) ==
    IF e.is_end_ THEN [e EXCEPT !.ret = FALSE]
    ELSE With(InsertLoop(e, 0), LAMBDA l :
             [l.e EXCEPT !.out = Append(@, <<l.count>>), !.is_end_ = TRUE, !.ret = TRUE])

\* DeleteExecutor after its constructor and Init(), over a table of n live
\* tuples, the tuple at RID i with key i, each index holding every tuple
Delete_Init(rows, nidx, n) ==
    [kind |-> "delete", child |-> rows, rows |-> rows, heap |-> [i \in 1..n |-> <<i, 0>>],
     indexes |-> [i \in 1..nidx |-> {<<j, j>> : j \in 1..n}], is_end_ |-> FALSE, done |-> 0,
     out |-> <<>>, ret |-> TRUE, calls |-> 0]

\* the while loop of DeleteExecutor::Next: [e, count]
RECURSIVE DeleteLoop(_, _)
DeleteLoop(e, count) ==
    IF e.child = <<>> THEN [e |-> e, count |-> count]
    ELSE With(Head(e.child), LAMBDA rid :
         With(MarkDelete(e.heap, rid), LAMBDA r :
             DeleteLoop([e EXCEPT !.child = Tail(@), !.heap = r.heap,
                                   !.indexes = IF r.ok THEN DeleteEntry(@, e.heap[rid][1], rid) ELSE @,
                                   !.done = IF r.ok THEN @ + 1 ELSE @],
                        IF r.ok THEN count + 1 ELSE count)))

\* DeleteExecutor::Next
Delete_Next(e) ==
    IF e.is_end_ THEN [e EXCEPT !.ret = FALSE]
    ELSE With(DeleteLoop(e, 0), LAMBDA l :
             [l.e EXCEPT !.out = Append(@, <<l.count>>), !.is_end_ = TRUE, !.ret = TRUE])

\* InsertExecutor::Init / DeleteExecutor::Init on an executor that was
\* initialized before: the child restarts; nothing resets is_end_
Dml_InitAgain(e) == [e EXCEPT !.child = e.rows]

-----------------------------------------------------------------------------
(* The buffer pool under its public interface: one action per call, and the *)
(* holder of a pinned frame writing the page's bytes.  calls and rt record  *)
(* what the callers have seen; the pool never reads them.                   *)

\* the sum of pin_count_ over the frames
RECURSIVE SumPins(_, _)
SumPins(b, n) == IF n = 0 THEN 0 ELSE b.pages_[n - 1].pin_count_ + SumPins(b, n - 1)

\* rt[p].stage: "new" after NewPage returned p, "written" once the holder has
\* written bytes through that pointer, "unpinned" after UnpinPage(p, true) took
\* the pin count to zero, "evicted" once a NewPage or FetchPage of another page
\* has dropped p from the pool, "refetched" after the FetchPage(p) that follows
\* (got: the bytes that FetchPage returned).  Any other call on p: "idle".
Idle == [stage |-> "idle", bytes |-> 0, got |-> ZeroData]

\* the pages a call has dropped from the directory
Dropped(b, b2) == {q \in PageIds(b) : Resident(b, q) /\ ~Resident(b2, q)}

AfterEviction(t, b, b2) ==
    [q \in DOMAIN t |->
        IF q \in Dropped(b, b2)
        THEN IF t[q].stage = "unpinned" THEN [t[q] EXCEPT !.stage = "evicted"] ELSE Idle
        ELSE t[q]]

\* the bounds and the history a harness keeps: [max_ts, track]
Control == [max_ts |-> MaxTimestamp, track |-> FALSE]
Data == [max_ts |-> DataMaxTimestamp, track |-> TRUE]

CanAccess(h, b) == b.replacer_.current_timestamp_ < h.max_ts

NoCall == [op |-> "none", key |-> 0, ret |-> FALSE, value |-> 0, present |-> FALSE, high |-> 0]

\* the hash table and the replacer that are driven on their own, before any call
\* no executor has been constructed yet
NoExecutor == [kind |-> "none"]

\* thread ids; 0 stands for no thread.  pc is where a thread is in its call
\* ("idle": in none), call the arguments of that call, seen what its last
\* read of a field without the lock returned; latch, mutex and root_latch
\* are the holders of the buffer pool's latch_, the replacer's latch_ and the
\* tree's root_page_id_latch_
Threads == 1..NumThreads
NoRead == [op |-> "none", value |-> 0, locked |-> TRUE, settled |-> TRUE]
IdleCall == [op |-> "none", page_id |-> 0, is_dirty |-> FALSE, io |-> <<>>]
IdleThreads ==
    [pc |-> [t \in Threads |-> "idle"], call |-> [t \in Threads |-> IdleCall],
     seen |-> [t \in Threads |-> NoRead], latch |-> 0, mutex |-> 0, root_latch |-> 0]

NoUnitCall == [op |-> "none", key |-> 0, value |-> 0, ret |-> FALSE, present |-> FALSE,
               iters |-> 0]

InitUnits ==
    /\ ht = [t |-> EHT_New(HashBucketSize), m |-> <<>>, last |-> NoUnitCall]
    /\ lru = [r |-> LRUK_New(LRUFrames, ReplacerK), acc |-> <<>>, last |-> NoUnitCall]
    /\ exec = NoExecutor
    /\ threads = IdleThreads

InitHistory(max_page_id) ==
    /\ latch_ = "free"
    /\ nwrites = 0
    /\ calls = [acquired |-> 0, released |-> 0]
    /\ rt = [p \in 0..max_page_id |-> Idle]
    /\ tree = [root_page_id_ |-> INVALID_PAGE_ID, st |-> "ok"]
    /\ kv = <<>>
    /\ last = NoCall
    /\ ops = 0
    /\ InitUnits

InitPool(pool_size, max_page_id) ==
    /\ bpm = BPM_New(pool_size, ReplacerK, max_page_id)
    /\ InitHistory(max_page_id)

Init == InitPool(PoolSize, MaxPageId)

InitData == InitPool(DataPoolSize, DataMaxPageId)

NewPage(h) ==
    /\ latch_ = "free"
    /\ CanAccess(h, bpm)
    /\ bpm.next_page_id_ \in PageIds(bpm)
    /\ LET r == NewPgImp(bpm)
       IN  /\ bpm' = r.b
           /\ calls' = IF r.frame # NullFrame THEN [calls EXCEPT !.acquired = @ + 1] ELSE calls
           /\ rt' = IF h.track /\ r.frame # NullFrame
                    THEN [AfterEviction(rt, bpm, r.b) EXCEPT ![r.page_id] = [Idle EXCEPT !.stage = "new"]]
                    ELSE rt
    /\ UNCHANGED <<latch_, nwrites>>
    /\ UNCHANGED <<treevars, unitvars>>

FetchPage(h, page_id) ==
    /\ latch_ = "free"
    /\ CanAccess(h, bpm)
    /\ LET r == FetchPgImp(bpm, page_id)
       IN  /\ bpm' = r.b
           /\ calls' = IF r.frame # NullFrame THEN [calls EXCEPT !.acquired = @ + 1] ELSE calls
           /\ rt' = IF h.track /\ r.frame # NullFrame
                    THEN [AfterEviction(rt, bpm, r.b) EXCEPT ![page_id] =
                             IF rt[page_id].stage = "evicted" /\ ~Resident(bpm, page_id)
                             THEN [rt[page_id] EXCEPT !.stage = "refetched",
                                                      !.got = r.b.pages_[r.frame].data_]
                             ELSE Idle]
                    ELSE rt
    /\ UNCHANGED <<latch_, nwrites>>
    /\ UNCHANGED <<treevars, unitvars>>

UnpinPage(h, page_id, is_dirty) ==
    /\ latch_ = "free"
    /\ LET r == UnpinPgImp(bpm, page_id, is_dirty)
       IN  /\ bpm' = r.b
           /\ calls' = IF r.ret THEN [calls EXCEPT !.released = @ + 1] ELSE calls
           /\ rt' = IF h.track /\ r.ret
                    THEN [rt EXCEPT ![page_id] =
                             IF /\ @.stage = "written"
                                /\ is_dirty
                                /\ r.b.pages_[EHT_Find(bpm.page_table_, page_id).value].pin_count_ = 0
                             THEN [@ EXCEPT !.stage = "unpinned"]
                             ELSE Idle]
                    ELSE rt
    /\ UNCHANGED <<latch_, nwrites>>
    /\ UNCHANGED <<treevars, unitvars>>

FlushPage(h, page_id) ==
    /\ latch_ = "free"
    /\ LET r == FlushPgImp(bpm, page_id)
       IN  bpm' = r.b
    /\ UNCHANGED <<latch_, nwrites, calls, rt>>
    /\ UNCHANGED <<treevars, unitvars>>

\* FlushAllPgsImp holds latch_ and calls FlushPgImp, which locks latch_ again:
\* undefined for std::mutex.  The call either blocks for ever or, where the
\* lock is a no-op (a build without thread support), goes through.
FlushAllPages(h) ==
    /\ latch_ = "free"
    /\ IF FlushAllTargets(bpm) = {}
       THEN UNCHANGED <<bpm, latch_>>
       ELSE \/ /\ latch_' = "deadlock"
               /\ UNCHANGED bpm
            \/ /\ bpm' = FlushAllLoop(bpm, 0)
               /\ UNCHANGED latch_
    /\ UNCHANGED <<nwrites, calls, rt>>
    /\ UNCHANGED <<treevars, unitvars>>

DeletePage(h, page_id) ==
    /\ latch_ = "free"
    /\ LET r == DeletePgImp(bpm, page_id)
       IN  /\ bpm' = r.b
           /\ rt' = IF h.track /\ Resident(bpm, page_id) /\ r.ret
                    THEN [rt EXCEPT ![page_id] = Idle]
                    ELSE rt
    /\ UNCHANGED <<latch_, nwrites, calls>>
    /\ UNCHANGED <<treevars, unitvars>>

\* the holder of a pin writes the bytes of the page through its Page pointer
WriteData(h, frame_id) ==
    /\ latch_ = "free"
    /\ nwrites < MaxWrites
    /\ bpm.pages_[frame_id].pin_count_ > 0
    /\ nwrites' = nwrites + 1
    /\ bpm' = [bpm EXCEPT !.pages_[frame_id].data_ = Bytes(nwrites + 1)]
    /\ LET q == bpm.pages_[frame_id].page_id_
       IN  rt' = IF h.track /\ EHT_Find(bpm.page_table_, q).value = frame_id
                 THEN [rt EXCEPT ![q] = IF @.stage \in {"new", "written"}
                                        THEN [@ EXCEPT !.stage = "written", !.bytes = nwrites + 1]
                                        ELSE Idle]
                 ELSE rt
    /\ UNCHANGED <<latch_, calls>>
    /\ UNCHANGED <<treevars, unitvars>>

Next ==
    \/ NewPage(Control)
    \/ \E p \in PageIds(bpm) : FetchPage(Control, p)
    \/ \E p \in PageIds(bpm), d \in BOOLEAN : UnpinPage(Control, p, d)
    \/ \E p \in PageIds(bpm) : FlushPage(Control, p)
    \/ FlushAllPages(Control)
    \/ \E p \in PageIds(bpm) : DeletePage(Control, p)

Spec == Init /\ [][Next]_vars

NextData ==
    \/ NewPage(Data)
    \/ \E p \in PageIds(bpm) : FetchPage(Data, p)
    \/ \E p \in PageIds(bpm), d \in BOOLEAN : UnpinPage(Data, p, d)
    \/ \E p \in PageIds(bpm) : FlushPage(Data, p)
    \/ FlushAllPages(Data)
    \/ \E p \in PageIds(bpm) : DeletePage(Data, p)
    \/ \E f \in Frames(bpm) : WriteData(Data, f)

SpecData == InitData /\ [][NextData]_vars

-----------------------------------------------------------------------------
(* The B+ tree under its public interface.  As the index tests do, the      *)
(* harness creates the pool, takes page 0 with NewPage for the header page  *)
(* and keeps it pinned, then constructs the tree.  New keys arrive in       *)
(* ascending order; a call may also name any key that has arrived, or the   *)
(* one that would arrive next.  Insert stores the number of the call as the *)
(* value.                                                                   *)

\* the key that arrives next: one above the keys inserted so far
NextKey == IF last.high < MaxKey THEN last.high + 1 ELSE MaxKey
Keys == 1..NextKey

InitTree ==
    /\ bpm = NewPgImp(BPM_New(TreePoolSize, ReplacerK, TreeMaxPageId)).b
    /\ InitHistory(TreeMaxPageId)

Machine(overlap) ==
    [b |-> bpm, root_page_id_ |-> tree.root_page_id_, st |-> tree.st, overlap |-> overlap,
     root_page_id_latch_ |-> threads.root_latch]

Commit(m) ==
    /\ bpm' = m.b
    /\ tree' = [root_page_id_ |-> m.root_page_id_, st |-> m.st]
    /\ threads' = [threads EXCEPT !.root_latch = m.root_page_id_latch_]
    /\ ops' = ops + 1
    /\ UNCHANGED <<poolvars, ht, lru, exec>>

CanCall == tree.st = "ok" /\ ops < MaxOps

Without(f, key) == [k \in DOMAIN f \ {key} |-> f[k]]

Insert(key) ==
    /\ CanCall
    /\ LET r == BPT_Insert(Machine("forward"), key, ops + 1)
       IN  /\ Commit(r.m)
           /\ kv' = IF Ok(r.m) /\ key \notin DOMAIN kv THEN (key :> (ops + 1)) @@ kv ELSE kv
           /\ last' = [op |-> "Insert", key |-> key, ret |-> r.ret, value |-> ops + 1,
                       present |-> key \in DOMAIN kv,
                       high |-> IF key > last.high THEN key ELSE last.high]

Remove(key) ==
    /\ CanCall
    /\ \E overlap \in {"forward", "memmove"} :
           LET m == BPT_Remove(Machine(overlap), key)
           IN  /\ Commit(m)
               /\ kv' = IF Ok(m) THEN Without(kv, key) ELSE kv
               /\ last' = [op |-> "Remove", key |-> key, ret |-> FALSE, value |-> 0,
                           present |-> key \in DOMAIN kv, high |-> last.high]

GetValue(key) ==
    /\ CanCall
    /\ LET r == BPT_GetValue(Machine("forward"), key)
       IN  /\ Commit(r.m)
           /\ kv' = kv
           /\ last' = [op |-> "GetValue", key |-> key, ret |-> r.ret, value |-> r.value,
                       present |-> key \in DOMAIN kv, high |-> last.high]

NextTree ==
    \/ \E key \in Keys : Insert(key)
    \/ \E key \in Keys : Remove(key)
    \/ \E key \in Keys : GetValue(key)

SpecTree == InitTree /\ [][NextTree]_vars

-----------------------------------------------------------------------------
(* The B+ tree under its public interface, from a tree of three levels: the  *)
(* harness has inserted the keys of DeepPrefix, each as its own value, into  *)
(* a new tree over a new pool, which fills the pool's frames.  The calls     *)
(* that follow name a key of DeepKeys.                                       *)

DeepPrefix == <<3, 6, 9, 12, 15, 18, 7, 8>>
DeepKeys == {7, 9, 12, 15, 21}

RECURSIVE Grow(_, _)
Grow(m, keys) ==
    IF keys = <<>> THEN m ELSE Grow(BPT_Insert(m, Head(keys), Head(keys)).m, Tail(keys))

Grown == Grow([b |-> NewPgImp(BPM_New(TreePoolSize, ReplacerK, TreeMaxPageId)).b,
               root_page_id_ |-> INVALID_PAGE_ID, st |-> "ok", overlap |-> "forward",
               root_page_id_latch_ |-> 0], DeepPrefix)

InitDeep ==
    /\ bpm = Grown.b
    /\ latch_ = "free" /\ nwrites = 0 /\ calls = [acquired |-> 0, released |-> 0]
    /\ rt = [p \in 0..TreeMaxPageId |-> Idle]
    /\ tree = [root_page_id_ |-> Grown.root_page_id_, st |-> Grown.st]
    /\ kv = [k \in {DeepPrefix[j] : j \in 1..Len(DeepPrefix)} |-> k]
    /\ last = NoCall
    /\ ops = 0
    /\ InitUnits

NextDeep ==
    \/ \E key \in DeepKeys : ops < DeepMaxOps /\ Insert(key)
    \/ \E key \in DeepKeys : ops < DeepMaxOps /\ Remove(key)

SpecDeep == InitDeep /\ [][NextDeep]_vars

-----------------------------------------------------------------------------
(* The B+ tree with its iterators: Insert and Remove as above, and Begin(),  *)
(* Begin(key) and End(), whose iterator the caller keeps.  last.it is the    *)
(* iterator the last call returned.                                          *)

Iterate(r, op, key) ==
    /\ Commit(r.m)
    /\ kv' = kv
    /\ last' = [op |-> op, key |-> key, ret |-> FALSE, value |-> 0,
                present |-> key \in DOMAIN kv, high |-> last.high, it |-> r.it]

Begin == ops < ScanMaxOps /\ CanCall /\ Iterate(BPT_Begin(Machine("forward")), "Begin", 0)

BeginKey(key) ==
    ops < ScanMaxOps /\ CanCall /\ Iterate(BPT_BeginKey(Machine("forward"), key), "BeginKey", key)

End == ops < ScanMaxOps /\ CanCall /\ Iterate(BPT_End(Machine("forward")), "End", 0)

NextScan ==
    \/ \E key \in Keys : ops < ScanMaxOps /\ Insert(key)
    \/ \E key \in Keys : ops < ScanMaxOps /\ Remove(key)
    \/ Begin
    \/ \E key \in Keys : BeginKey(key)
    \/ End

SpecScan == InitTree /\ [][NextScan]_vars

-----------------------------------------------------------------------------
(* The B+ tree over a pool of TightPoolSize frames, one of which the header *)
(* page holds for good: NewPage fails once the other frames are pinned.     *)

InitTight ==
    /\ bpm = NewPgImp(BPM_New(TightPoolSize, ReplacerK, TreeMaxPageId)).b
    /\ InitHistory(TreeMaxPageId)

NextTight ==
    \/ \E key \in Keys : Insert(key)
    \/ \E key \in Keys : Remove(key)
    \/ \E key \in Keys : GetValue(key)
    \/ Begin
    \/ \E key \in Keys : BeginKey(key)
    \/ End

SpecTight == InitTight /\ [][NextTight]_vars

-----------------------------------------------------------------------------
(* The join executors under their interface: the plan and the children are  *)
(* chosen when the executor is constructed and initialised, then Next is    *)
(* called until it returns false.                                           *)

JoinTypes == {"INNER", "LEFT"}
JoinKeys == {1, 2}

\* the sequences of up to n elements of S
SeqsUpTo(S, n) == UNION {[1..k -> S] : k \in 0..n}

\* the tuples a left child may produce, and those of a right side: the i-th
\* right tuple carries the payload 10 + i
LeftInputs(S) == SeqsUpTo({<<x>> : x \in S}, MaxLeftRows)
RightInputs(S) ==
    {[i \in 1..Len(xs) |-> <<xs[i], 10 + i>>] : xs \in SeqsUpTo(S, MaxRightRows)}

NijInit(join_type, child, table) ==
    /\ exec.kind = "none"
    /\ exec' = NIJ_Init(join_type, child, table)
    /\ UNCHANGED <<bpm, poolvars, treevars, threads, ht, lru>>

NijNext ==
    /\ exec.kind = "nij" /\ exec.st = "ok" /\ exec.ret
    /\ \E raw \in RawRids : exec' = [NIJ_Next(exec, raw) EXCEPT !.calls = @ + 1]
    /\ UNCHANGED <<bpm, poolvars, treevars, threads, ht, lru>>

NextNIJ ==
    \/ \E join_type \in JoinTypes, child \in LeftInputs(JoinKeys), table \in RightInputs(JoinKeys) :
           NijInit(join_type, child, table)
    \/ NijNext

SpecNIJ == Init /\ [][NextNIJ]_vars

NljInit(join_type, left, right) ==
    /\ exec.kind = "none"
    /\ exec' = NLJ_Init(join_type, left, right)
    /\ UNCHANGED <<bpm, poolvars, treevars, threads, ht, lru>>

NljNext ==
    /\ exec.kind = "nlj" /\ exec.ret
    /\ exec' = [NLJ_Next(exec) EXCEPT !.calls = @ + 1]
    /\ UNCHANGED <<bpm, poolvars, treevars, threads, ht, lru>>

NextNLJ ==
    \/ \E join_type \in JoinTypes, left \in LeftInputs(JoinKeys \cup {NULL}),
          right \in RightInputs(JoinKeys \cup {NULL}) : NljInit(join_type, left, right)
    \/ NljNext

SpecNLJ == Init /\ [][NextNLJ]_vars

\* the rows a child of Insert may produce, and the RIDs a child of Delete or
\* an index may produce
InsertInputs == SeqsUpTo({<<k, fits>> : k \in JoinKeys, fits \in 0..1}, MaxChildRows)
RidInputs == SeqsUpTo(1..MaxTableRows, MaxChildRows)
ScanTable == [i \in 1..MaxTableRows |-> <<i, 10 + i>>]

IscanInit(matches) ==
    /\ exec.kind = "none"
    /\ exec' = IndexScan_Init(matches, ScanTable)
    /\ UNCHANGED <<bpm, poolvars, treevars, threads, ht, lru>>

IscanNext ==
    /\ exec.kind = "iscan" /\ exec.ret
    /\ exec' = [IndexScan_Next(exec) EXCEPT !.calls = @ + 1]
    /\ UNCHANGED <<bpm, poolvars, treevars, threads, ht, lru>>

InsertInit(rows, nidx) ==
    /\ exec.kind = "none"
    /\ exec' = Insert_Init(rows, nidx)
    /\ UNCHANGED <<bpm, poolvars, treevars, threads, ht, lru>>

\* Next is called once more after it has returned false
InsertNext ==
    /\ exec.kind = "insert" /\ exec.calls < MaxNextCalls
    /\ exec' = [Insert_Next(exec) EXCEPT !.calls = @ + 1]
    /\ UNCHANGED <<bpm, poolvars, treevars, threads, ht, lru>>

DeleteInit(rows, nidx) ==
    /\ exec.kind = "none"
    /\ exec' = Delete_Init(rows, nidx, MaxTableRows)
    /\ UNCHANGED <<bpm, poolvars, treevars, threads, ht, lru>>

DeleteNext ==
    /\ exec.kind = "delete" /\ exec.calls < MaxNextCalls
    /\ exec' = [Delete_Next(exec) EXCEPT !.calls = @ + 1]
    /\ UNCHANGED <<bpm, poolvars, treevars, threads, ht, lru>>

NextDml ==
    \/ \E rows \in InsertInputs, nidx \in 0..MaxIndexes : InsertInit(rows, nidx)
    \/ InsertNext
    \/ \E rows \in RidInputs, nidx \in 0..MaxIndexes : DeleteInit(rows, nidx)
    \/ DeleteNext

SpecDml == Init /\ [][NextDml]_vars

\* Init() is called on an executor a second time, before or after its Next
\* calls have drained it; out, ret, calls and done start again with the run
InitAgain ==
    /\ exec.kind \in {"nlj", "iscan", "insert", "delete"}
    /\ "again" \notin DOMAIN exec
    /\ exec' = [again |-> TRUE] @@
                [(CASE exec.kind = "nlj" -> NLJ_InitAgain(exec)
                    [] exec.kind = "iscan" -> IndexScan_InitAgain(exec)
                    [] OTHER -> [Dml_InitAgain(exec) EXCEPT !.done = 0])
                   EXCEPT !.out = <<>>, !.ret = TRUE, !.calls = 0]
    /\ UNCHANGED <<bpm, poolvars, treevars, threads, ht, lru>>

NextInit ==
    \/ \E join_type \in JoinTypes, left \in LeftInputs(JoinKeys), right \in RightInputs(JoinKeys) :
           NljInit(join_type, left, right)
    \/ NljNext
    \/ \E matches \in RidInputs : IscanInit(matches)
    \/ IscanNext
    \/ \E rows \in InsertInputs, nidx \in 0..MaxIndexes : InsertInit(rows, nidx)
    \/ InsertNext
    \/ \E rows \in RidInputs, nidx \in 0..MaxIndexes : DeleteInit(rows, nidx)
    \/ DeleteNext
    \/ InitAgain

SpecInit == Init /\ [][NextInit]_vars

-----------------------------------------------------------------------------
(* The extendible hash table under its public interface, as the container   *)
(* tests drive it: an ExtendibleHashTable<int, int> of its own.  ht.m is    *)
(* the map the calls so far should have left: the last value inserted under *)
(* each key that has not been removed since.                                *)

\* the keys of the calls: 0, 4 and 8 agree on their two low bits
HashKeys == {0, 1, 2, 4, 8}
HashValues == 1..HashMaxValue

HashInsert(key, value) ==
    /\ ht' = [t |-> EHT_Insert(ht.t, key, value),
              m |-> (key :> value) @@ ht.m,
              last |-> [op |-> "Insert", key |-> key, value |-> value, ret |-> TRUE,
                        present |-> key \in DOMAIN ht.m,
                        iters |-> Len(InsertRun(ht.t, key, value, HashMaxIterations))]]
    /\ UNCHANGED <<bpm, poolvars, treevars, threads, lru, exec>>

HashRemove(key) ==
    /\ With(EHT_Remove(ht.t, key), LAMBDA r :
           ht' = [t |-> r.t,
                  m |-> Without(ht.m, key),
                  last |-> [op |-> "Remove", key |-> key, value |-> 0, ret |-> r.ok,
                            present |-> key \in DOMAIN ht.m, iters |-> 0]])
    /\ UNCHANGED <<bpm, poolvars, treevars, threads, lru, exec>>

HashFind(key) ==
    /\ With(EHT_Find(ht.t, key), LAMBDA r :
           ht' = [ht EXCEPT !.last = [op |-> "Find", key |-> key, value |-> r.value,
                                      ret |-> r.found, present |-> key \in DOMAIN ht.m,
                                      iters |-> 0]])
    /\ UNCHANGED <<bpm, poolvars, treevars, threads, lru, exec>>

NextHash ==
    \/ \E key \in HashKeys, value \in HashValues : HashInsert(key, value)
    \/ \E key \in HashKeys : HashRemove(key)
    \/ \E key \in HashKeys : HashFind(key)

SpecHash == Init /\ [][NextHash]_vars

\* the keys of the table that only grows: the keys whose hashes are the first
\* MaxGrowInserts numbers, and two keys that share their three low bits with 0
GrowKeys == (0..(MaxGrowInserts - 1)) \cup {Pow2(3), Pow2(4)}

\* Insert of a key that the table does not hold yet
HashGrow(key) ==
    /\ key \notin DOMAIN ht.m
    /\ Cardinality(DOMAIN ht.m) < MaxGrowInserts
    /\ HashInsert(key, HashMaxValue)

NextGrow == \E key \in GrowKeys : HashGrow(key)

SpecGrow == Init /\ [][NextGrow]_vars

-----------------------------------------------------------------------------
(* The LRU-K replacer under its public interface, as the replacer tests     *)
(* drive it: an LRUKReplacer of its own.  lru.acc is the history of the     *)
(* accesses: for each frame, the timestamps of the RecordAccess calls since *)
(* the frame was last evicted or removed.                                   *)

LRUFrameIds == 0..(LRUFrames - 1)

\* what the memory of a queue's first slot may hold before anything is pushed
RawFronts == {0, LRUMaxTimestamp + 1}

Evictables(r) == {f \in DOMAIN r.mp_ : r.mp_[f].enable_evit_}

\* the push writes the first slot of a queue that was empty
LruRecordAccess(frame_id) ==
    /\ lru.r.current_timestamp_ < LRUMaxTimestamp
    /\ lru' = [r |-> With(LRUK_RecordAccess(lru.r, frame_id), LAMBDA r2 :
                          SetNode(r2, frame_id,
                                  [time_ |-> r2.mp_[frame_id].time_,
                                   enable_evit_ |-> r2.mp_[frame_id].enable_evit_])),
               acc |-> (frame_id :> Append(IF frame_id \in DOMAIN lru.acc
                                           THEN lru.acc[frame_id] ELSE <<>>,
                                           lru.r.current_timestamp_ + 1)) @@ lru.acc,
               last |-> [NoUnitCall EXCEPT !.op = "RecordAccess"]]
    /\ UNCHANGED <<bpm, poolvars, treevars, threads, ht, exec>>

\* mp_[frame_id] creates the node of a frame the replacer does not know; the
\* queue of the new node is empty and its first slot holds what memory held
LruSetEvictable(frame_id, set_evictable) ==
    /\ \E raw \in RawFronts :
           With(LRUK_SetEvictable(lru.r, frame_id, set_evictable), LAMBDA r2 :
               lru' = [lru EXCEPT
                          !.r = IF frame_id \in DOMAIN lru.r.mp_ THEN r2
                                ELSE SetNode(r2, frame_id,
                                             [time_ |-> <<>>,
                                              enable_evit_ |-> r2.mp_[frame_id].enable_evit_,
                                              raw_ |-> raw]),
                          !.last = [NoUnitCall EXCEPT !.op = "SetEvictable", !.key = frame_id,
                                                      !.ret = set_evictable,
                                                      !.present = frame_id \in DOMAIN lru.r.mp_]])
    /\ UNCHANGED <<bpm, poolvars, treevars, threads, ht, exec>>

\* last: the victim, how many frames were evictable, whether the victim had k accesses
LruEvict ==
    /\ With(LRUK_Evict(lru.r), LAMBDA ev :
           lru' = [r |-> ev.r,
                   acc |-> IF ev.ok THEN Without(lru.acc, ev.frame_id) ELSE lru.acc,
                   last |-> [NoUnitCall EXCEPT
                                !.op = "Evict", !.key = ev.frame_id, !.ret = ev.ok,
                                !.value = Cardinality(Evictables(lru.r)),
                                !.present = ev.ok /\ Len(lru.r.mp_[ev.frame_id].time_) = lru.r.k_]])
    /\ UNCHANGED <<bpm, poolvars, treevars, threads, ht, exec>>

\* an exception leaves the replacer as it was
LruRemove(frame_id) ==
    /\ With(LRUK_Remove(lru.r, frame_id), LAMBDA rm :
           lru' = [r |-> rm.r,
                   acc |-> IF rm.threw \/ frame_id \notin DOMAIN lru.r.mp_ THEN lru.acc
                           ELSE Without(lru.acc, frame_id),
                   last |-> [NoUnitCall EXCEPT !.op = "Remove", !.ret = ~rm.threw]])
    /\ UNCHANGED <<bpm, poolvars, treevars, threads, ht, exec>>

NextLRU ==
    \/ \E f \in LRUFrameIds : LruRecordAccess(f)
    \/ \E f \in LRUFrameIds, e \in BOOLEAN : LruSetEvictable(f, e)
    \/ LruEvict
    \/ \E f \in LRUFrameIds : LruRemove(f)

SpecLRU == Init /\ [][NextLRU]_vars

-----------------------------------------------------------------------------
(* The replacer lru called with any frame id, in and out of 0..num_frames-1. *)
(* last keeps the call, its frame id (key) and whether it threw (present).   *)

AnyFrameIds == (0 - 1)..(LRUFrames + 1)

Thrown(op, frame_id) ==
    [NoUnitCall EXCEPT !.op = op, !.key = frame_id, !.present = TRUE]

Returned(op, frame_id) ==
    [NoUnitCall EXCEPT !.op = op, !.key = frame_id, !.present = FALSE]

RangeRecordAccess(frame_id) ==
    /\ lru.r.current_timestamp_ < RangeMaxTimestamp
    /\ lru' = IF Throws(lru.r, frame_id)
              THEN [lru EXCEPT !.last = Thrown("RecordAccess", frame_id)]
              ELSE [lru EXCEPT !.r = LRUK_RecordAccess(@, frame_id),
                               !.last = Returned("RecordAccess", frame_id)]
    /\ UNCHANGED <<bpm, poolvars, treevars, threads, ht, exec>>

RangeSetEvictable(frame_id, set_evictable) ==
    /\ lru' = IF Throws(lru.r, frame_id)
              THEN [lru EXCEPT !.last = Thrown("SetEvictable", frame_id)]
              ELSE [lru EXCEPT !.r = LRUK_SetEvictable(@, frame_id, set_evictable),
                               !.last = Returned("SetEvictable", frame_id)]
    /\ UNCHANGED <<bpm, poolvars, treevars, threads, ht, exec>>

RangeRemove(frame_id) ==
    /\ With(LRUK_Remove(lru.r, frame_id), LAMBDA rm :
           lru' = [lru EXCEPT !.r = rm.r,
                              !.last = IF rm.threw THEN Thrown("Remove", frame_id)
                                       ELSE Returned("Remove", frame_id)])
    /\ UNCHANGED <<bpm, poolvars, treevars, threads, ht, exec>>

NextRange ==
    \/ \E f \in AnyFrameIds : RangeRecordAccess(f)
    \/ \E f \in AnyFrameIds, e \in BOOLEAN : RangeSetEvictable(f, e)
    \/ \E f \in AnyFrameIds : RangeRemove(f)

SpecRange == Init /\ [][NextRange]_vars

-----------------------------------------------------------------------------
(* The buffer pool called by several threads.  Every method takes latch_ in *)
(* a scoped_lock on entry, which lets go of it when the method returns; a   *)
(* thread is "locked" while it runs under the latch and "ReadPage" or       *)
(* "WritePage" while it is inside that call of the disk manager.  What the  *)
(* method does to the pool shows when it returns: no other thread can look  *)
(* at the pool before.                                                      *)

\* the write-back of the victim in NewPgImp and FetchPgImp
VictimWrite(b) ==
    IF b.free_list_ # <<>> THEN <<>>
    ELSE With(LRUK_Evict(b.replacer_), LAMBDA ev :
             IF ev.ok /\ b.pages_[ev.frame_id].is_dirty_ THEN <<"WritePage">> ELSE <<>>)

\* the calls of the disk manager a method of the pool makes, in order
DiskCalls(b, call) ==
    CASE call.op = "NewPage" -> VictimWrite(b)
      [] call.op = "FetchPage" ->
            IF Resident(b, call.page_id) \/ ~TakeFrame(b).ok THEN <<>>
            ELSE VictimWrite(b) \o <<"ReadPage">>
      [] call.op = "FlushPage" ->
            IF Resident(b, call.page_id) THEN <<"WritePage">> ELSE <<>>
      [] call.op = "DeletePage" ->
            IF /\ Resident(b, call.page_id)
               /\ b.pages_[EHT_Find(b.page_table_, call.page_id).value].pin_count_ = 0
               /\ b.pages_[EHT_Find(b.page_table_, call.page_id).value].is_dirty_
            THEN <<"WritePage">> ELSE <<>>
      [] OTHER -> <<>>

\* the pool after the method
Effect(b, call) ==
    CASE call.op = "NewPage" -> NewPgImp(b).b
      [] call.op = "FetchPage" -> FetchPgImp(b, call.page_id).b
      [] call.op = "UnpinPage" -> UnpinPgImp(b, call.page_id, call.is_dirty).b
      [] call.op = "FlushPage" -> FlushPgImp(b, call.page_id).b
      [] OTHER -> DeletePgImp(b, call.page_id).b

PoolCalls(b) ==
    {[op |-> op, page_id |-> p, is_dirty |-> d, io |-> <<>>] :
        op \in {"NewPage", "FetchPage", "UnpinPage", "FlushPage", "DeletePage"},
        p \in PageIds(b), d \in BOOLEAN}

\* std::scoped_lock lock(latch_) on entry: the thread waits while another holds it
Enter(t, call) ==
    /\ threads.pc[t] = "idle"
    /\ threads.latch = 0
    /\ call.op \in {"NewPage", "FetchPage"} => CanAccess(Control, bpm)
    /\ call.op = "NewPage" => bpm.next_page_id_ \in PageIds(bpm) /\ call.page_id = 0
    /\ call.op # "UnpinPage" => ~call.is_dirty
    /\ threads' = [threads EXCEPT !.latch = t, !.pc[t] = "locked",
                                  !.call[t] = [call EXCEPT !.io = DiskCalls(bpm, call)]]
    /\ UNCHANGED <<bpm, poolvars, treevars, ht, lru, exec>>

\* the thread calls disk_manager_->ReadPage or WritePage
DiskCall(t) ==
    /\ threads.pc[t] = "locked"
    /\ threads.call[t].io # <<>>
    /\ threads' = [threads EXCEPT !.pc[t] = Head(threads.call[t].io),
                                  !.call[t].io = Tail(@)]
    /\ UNCHANGED <<bpm, poolvars, treevars, ht, lru, exec>>

\* the disk manager returns
DiskReturn(t) ==
    /\ threads.pc[t] \in {"ReadPage", "WritePage"}
    /\ threads' = [threads EXCEPT !.pc[t] = "locked"]
    /\ UNCHANGED <<bpm, poolvars, treevars, ht, lru, exec>>

\* the method returns and the scoped_lock lets go of latch_
Return(t) ==
    /\ threads.pc[t] = "locked"
    /\ threads.call[t].io = <<>>
    /\ bpm' = Effect(bpm, threads.call[t])
    /\ threads' = [threads EXCEPT !.latch = 0, !.pc[t] = "idle", !.call[t] = IdleCall]
    /\ UNCHANGED <<poolvars, treevars, ht, lru, exec>>

NextIO ==
    \/ \E t \in Threads, call \in PoolCalls(bpm) : Enter(t, call)
    \/ \E t \in Threads : DiskCall(t)
    \/ \E t \in Threads : DiskReturn(t)
    \/ \E t \in Threads : Return(t)

SpecIO == Init /\ [][NextIO]_vars

-----------------------------------------------------------------------------
(* The replacer lru and the tree called by several threads.  A method that  *)
(* takes the lock of its component runs under it from entry to return; the  *)
(* model stops such a method between its two writes to the fields, where    *)
(* the other threads still run.  LRUKReplacer::Size and                     *)
(* BPlusTree::GetRootPageId take no lock: they read the field whenever they *)
(* are called.  seen[t] keeps what the read returned, whether the reader    *)
(* held the lock, and whether the field was settled: curr_size_ the number  *)
(* of evictable entries, root_page_id_ invalid or the id of a page that     *)
(* holds a node.                                                            *)

ThreadsAfter(t, pc, call) == [threads EXCEPT !.pc[t] = pc, !.call[t] = call]

\* RecordAccess runs under the mutex from entry to return
RaceRecordAccess(frame_id) ==
    /\ threads.mutex = 0
    /\ lru.r.current_timestamp_ < RaceMaxTimestamp
    /\ LruRecordAccess(frame_id)

\* Evict: the lock, the scan for the victim and mp_.erase
EvictErase(t) ==
    /\ threads.pc[t] = "idle" /\ threads.mutex = 0
    /\ With(EvictScan(lru.r, DOMAIN lru.r.mp_, NullFrame), LAMBDA victim :
           /\ victim # NullFrame
           /\ lru' = [lru EXCEPT !.r = EraseNode(@, victim)]
           /\ threads' = [ThreadsAfter(t, "Evict", [op |-> "Evict", frame_id |-> victim])
                            EXCEPT !.mutex = t])
    /\ UNCHANGED <<bpm, poolvars, treevars, ht, exec>>

\* SetEvictable of a tracked frame whose flag changes: the lock and curr_size_++ / --
SetEvictableCount(t, frame_id, set_evictable) ==
    /\ threads.pc[t] = "idle" /\ threads.mutex = 0
    /\ frame_id \in DOMAIN lru.r.mp_
    /\ lru.r.mp_[frame_id].enable_evit_ # set_evictable
    /\ lru' = [lru EXCEPT !.r.curr_size_ = IF set_evictable THEN @ + 1 ELSE @ - 1]
    /\ threads' = [ThreadsAfter(t, "SetEvictable",
                                [op |-> "SetEvictable", frame_id |-> frame_id,
                                 set_evictable |-> set_evictable])
                     EXCEPT !.mutex = t]
    /\ UNCHANGED <<bpm, poolvars, treevars, ht, exec>>

\* SetEvictable: enable_evit_ = set_evictable, and the return
SetEvictableFlag(t) ==
    /\ threads.pc[t] = "SetEvictable"
    /\ lru' = [lru EXCEPT !.r.mp_[threads.call[t].frame_id].enable_evit_ =
                              threads.call[t].set_evictable]
    /\ threads' = [ThreadsAfter(t, "idle", IdleCall) EXCEPT !.mutex = 0]
    /\ UNCHANGED <<bpm, poolvars, treevars, ht, exec>>

\* Remove of a tracked, evictable frame: the lock and mp_.erase
RemoveErase(t, frame_id) ==
    /\ threads.pc[t] = "idle" /\ threads.mutex = 0
    /\ frame_id \in DOMAIN lru.r.mp_
    /\ lru.r.mp_[frame_id].enable_evit_
    /\ lru' = [lru EXCEPT !.r = EraseNode(@, frame_id)]
    /\ threads' = [ThreadsAfter(t, "Remove", [op |-> "Remove", frame_id |-> frame_id])
                     EXCEPT !.mutex = t]
    /\ UNCHANGED <<bpm, poolvars, treevars, ht, exec>>

\* Evict and Remove: curr_size_--, and the return
EraseCount(t) ==
    /\ threads.pc[t] \in {"Evict", "Remove"}
    /\ lru' = [lru EXCEPT !.r.curr_size_ = @ - 1]
    /\ threads' = [ThreadsAfter(t, "idle", IdleCall) EXCEPT !.mutex = 0]
    /\ UNCHANGED <<bpm, poolvars, treevars, ht, exec>>

\* LRUKReplacer::Size
Size(t) ==
    /\ threads.pc[t] = "idle"
    /\ threads' = [threads EXCEPT !.seen[t] =
                      [op |-> "Size", value |-> LRUK_Size(lru.r),
                       locked |-> threads.mutex = t,
                       settled |-> LRUK_Size(lru.r) = Cardinality(Evictables(lru.r))]]
    /\ UNCHANGED <<bpm, poolvars, treevars, ht, lru, exec>>

\* BPlusTree::Insert into the empty tree: WLock and NewPage(&root_page_id_)
InsertNewRoot(t, key) ==
    /\ threads.pc[t] = "idle" /\ threads.root_latch = 0
    /\ tree.st = "ok" /\ tree.root_page_id_ = INVALID_PAGE_ID
    /\ With(NewPgImp(bpm), LAMBDA n :
           /\ n.frame # NullFrame
           /\ bpm' = n.b
           /\ tree' = [tree EXCEPT !.root_page_id_ = n.page_id]
           /\ threads' = [ThreadsAfter(t, "Insert", [op |-> "Insert", key |-> key,
                                                      frame |-> n.frame])
                            EXCEPT !.root_latch = t])
    /\ UNCHANGED <<poolvars, kv, last, ops, ht, lru, exec>>

\* the rest of it: the leaf is initialized and filled, the page unpinned, the
\* header page updated, WUnlock
InsertFillRoot(t) ==
    /\ threads.pc[t] = "Insert"
    /\ With(threads.call[t], LAMBDA c :
       With(T_SetData(Machine("forward"), c.frame,
                      Leaf_Insert(Leaf_Init(tree.root_page_id_, INVALID_PAGE_ID, LeafMaxSize),
                                  c.key, ops + 1)), LAMBDA m :
       With(UpdateRootPageId(T_Unpin(m, tree.root_page_id_, TRUE), 1), LAMBDA m2 :
           /\ bpm' = m2.b
           /\ tree' = [root_page_id_ |-> m2.root_page_id_, st |-> m2.st]
           /\ kv' = (c.key :> (ops + 1)) @@ kv)))
    /\ ops' = ops + 1
    /\ threads' = [ThreadsAfter(t, "idle", IdleCall) EXCEPT !.root_latch = 0]
    /\ UNCHANGED <<poolvars, last, ht, lru, exec>>

\* BPlusTree::GetRootPageId
GetRootPageId(t) ==
    /\ threads.pc[t] = "idle"
    /\ threads' = [threads EXCEPT !.seen[t] =
                      [op |-> "GetRootPageId", value |-> tree.root_page_id_,
                       locked |-> threads.root_latch = t,
                       settled |->
                           \/ tree.root_page_id_ = INVALID_PAGE_ID
                           \/ With(EHT_Find(bpm.page_table_, tree.root_page_id_).value, LAMBDA f :
                                  IsNode(IF f # NullFrame THEN bpm.pages_[f].data_
                                         ELSE DiskRead(bpm, tree.root_page_id_)))]]
    /\ UNCHANGED <<bpm, poolvars, treevars, ht, lru, exec>>

NextRace ==
    \/ \E f \in LRUFrameIds : RaceRecordAccess(f)
    \/ \E t \in Threads : EvictErase(t)
    \/ \E t \in Threads, f \in LRUFrameIds, e \in BOOLEAN : SetEvictableCount(t, f, e)
    \/ \E t \in Threads : SetEvictableFlag(t)
    \/ \E t \in Threads, f \in LRUFrameIds : RemoveErase(t, f)
    \/ \E t \in Threads : EraseCount(t)
    \/ \E t \in Threads : Size(t)
    \/ \E t \in Threads, key \in Keys : InsertNewRoot(t, key)
    \/ \E t \in Threads : InsertFillRoot(t)
    \/ \E t \in Threads : GetRootPageId(t)

SpecRace == InitTree /\ [][NextRace]_vars

-----------------------------------------------------------------------------
(* Properties of the buffer pool.                                           *)

FrameOf(b, page_id) == EHT_Find(b.page_table_, page_id).value

\* C1: the dirty flag is sticky-OR.  Whenever a resident page's frame is dirty
\* (which only a successful UnpinPage(p, true) brings about), a successful
\* UnpinPage(p, d) leaves the flag at (dirty or d), and a FetchPage(p) leaves it
\* as it is: FetchPage and UnpinPage(p, false) never clear it.
C1_DirtyFlagStickyOr ==
    \A p \in PageIds(bpm) :
        Resident(bpm, p) =>
            LET f == FrameOf(bpm, p)
                dirty == bpm.pages_[f].is_dirty_
            IN  /\ \A d \in BOOLEAN :
                       LET r == UnpinPgImp(bpm, p, d)
                       IN  r.ret => r.b.pages_[f].is_dirty_ = (dirty \/ d)
                /\ FetchPgImp(bpm, p).b.pages_[f].is_dirty_ = dirty

\* C5: when FlushAllPages returns, every resident page's disk copy equals its
\* frame's bytes and its frame is clean, no pin count has changed, and a second
\* FlushAllPages changes nothing.
C5_FlushAllFlushesEveryResident ==
    LET b2 == FlushAllLoop(bpm, 0)
    IN  /\ \A p \in PageIds(bpm) :
               Resident(bpm, p) =>
                   /\ b2.disk[p] = b2.pages_[FrameOf(bpm, p)].data_
                   /\ ~b2.pages_[FrameOf(bpm, p)].is_dirty_
        /\ \A f \in Frames(bpm) : b2.pages_[f].pin_count_ = bpm.pages_[f].pin_count_
        /\ FlushAllLoop(b2, 0) = b2

\* C6: pin accounting.  Every pin count is >= 0; the pin counts add up to the
\* successful NewPage/FetchPage calls minus the successful UnpinPage calls; an
\* UnpinPage of a page that is not resident, or whose pin count is 0, returns
\* false and changes nothing.
C6_PinAccounting ==
    /\ \A f \in Frames(bpm) : bpm.pages_[f].pin_count_ >= 0
    /\ SumPins(bpm, bpm.pool_size_) = calls.acquired - calls.released
    /\ \A p \in PageIds(bpm), d \in BOOLEAN :
           (~Resident(bpm, p) \/ bpm.pages_[FrameOf(bpm, p)].pin_count_ = 0)
               => UnpinPgImp(bpm, p, d) = [b |-> bpm, ret |-> FALSE]

\* C6 happens: pins have been taken and given back, one page is pinned twice,
\* and an UnpinPage of another page fails.
C6_Witness ==
    /\ calls.released >= 1
    /\ \E f \in Frames(bpm) : bpm.pages_[f].pin_count_ = 2
    /\ \E p \in PageIds(bpm) : Resident(bpm, p) /\ ~UnpinPgImp(bpm, p, TRUE).ret

\* scenario S1: pool of 3 frames, k = 2; NewPage p1, p2, p3; Unpin p1, p2;
\* Fetch p1; NewPage succeeds and evicts p2
S1Example ==
    LET n1 == NewPgImp(BPM_New(3, 2, 3))
        n2 == NewPgImp(n1.b)
        n3 == NewPgImp(n2.b)
        u1 == UnpinPgImp(n3.b, n1.page_id, FALSE)
        u2 == UnpinPgImp(u1.b, n2.page_id, FALSE)
        f1 == FetchPgImp(u2.b, n1.page_id)
        n4 == NewPgImp(f1.b)
    IN  /\ n4.frame # NullFrame
        /\ n4.frame = n2.frame
        /\ ~Resident(n4.b, n2.page_id)
        /\ Resident(n4.b, n1.page_id) /\ Resident(n4.b, n3.page_id)

\* C7: a pinned frame is never evicted.  A frame with pin count > 0 is tracked
\* by the replacer as non-evictable, the victim a miss would take has pin count
\* 0, and scenario S1 evicts p2.
C7_PinnedNeverEvicted ==
    /\ \A f \in Frames(bpm) :
           bpm.pages_[f].pin_count_ > 0 =>
               f \in DOMAIN bpm.replacer_.mp_ /\ ~bpm.replacer_.mp_[f].enable_evit_
    /\ LET ev == LRUK_Evict(bpm.replacer_)
       IN  ev.ok => bpm.pages_[ev.frame_id].pin_count_ = 0
    /\ S1Example

\* C7 happens: no free frame, one frame pinned after a second access, and a
\* NewPage takes another frame as its victim.
C7_Witness ==
    /\ bpm.free_list_ = <<>>
    /\ bpm.next_page_id_ \in PageIds(bpm)
    /\ \E f \in Frames(bpm) :
           /\ bpm.pages_[f].pin_count_ > 0
           /\ Len(bpm.replacer_.mp_[f].time_) = 2
           /\ NewPgImp(bpm).frame \in Frames(bpm) \ {f}

\* how often a frame is on the free list
Occurrences(s, x) == Cardinality({i \in DOMAIN s : s[i] = x})

\* C8: frame partition.  Each frame is on the free list exactly once or holds
\* a page, never both and never neither; the directory maps the page id of a
\* frame that holds a page to that frame; every directory entry points to a
\* frame holding that page id; no two frames hold the same page id.
C8_FramePartition ==
    /\ \A f \in Frames(bpm) :
           \/ Occurrences(bpm.free_list_, f) = 1 /\ bpm.pages_[f].page_id_ = INVALID_PAGE_ID
           \/ Occurrences(bpm.free_list_, f) = 0 /\ bpm.pages_[f].page_id_ # INVALID_PAGE_ID
    /\ \A f \in Frames(bpm) :
           bpm.pages_[f].page_id_ # INVALID_PAGE_ID => FrameOf(bpm, bpm.pages_[f].page_id_) = f
    /\ \A p \in PageIds(bpm) :
           Resident(bpm, p) => bpm.pages_[FrameOf(bpm, p)].page_id_ = p
    /\ \A f, g \in Frames(bpm) :
           (f # g /\ bpm.pages_[f].page_id_ # INVALID_PAGE_ID)
               => bpm.pages_[f].page_id_ # bpm.pages_[g].page_id_

\* C9: round trip.  A page created by NewPage, written, unpinned with
\* UnpinPage(dirty = true) and then dropped from the pool by the NewPage and
\* FetchPage calls of other pages comes back from FetchPage with exactly the
\* bytes written.
C9_RoundTrip ==
    \A p \in DOMAIN rt :
        rt[p].stage = "refetched" => rt[p].got = Bytes(rt[p].bytes)

\* every frame of the pool is pinned
AllPinned(b) == \A f \in Frames(b) : b.pages_[f].pin_count_ > 0

\* C23: pool exhaustion.  When every frame is pinned, NewPage and the FetchPage
\* of a page that is not resident return null and leave the pool as it was:
\* frames, directory, replacer, free list and pin counts, and no page id is
\* used up; the FetchPage of a resident page still succeeds and pins it.
C23_PoolExhaustion ==
    AllPinned(bpm) =>
        /\ NewPgImp(bpm).frame = NullFrame
        /\ NewPgImp(bpm).b = bpm
        /\ \A p \in PageIds(bpm) :
               IF Resident(bpm, p)
               THEN LET r == FetchPgImp(bpm, p)
                    IN  /\ r.frame = FrameOf(bpm, p)
                        /\ r.b.pages_[r.frame].pin_count_ = bpm.pages_[r.frame].pin_count_ + 1
                        /\ r.b.pages_[r.frame].page_id_ = p
               ELSE FetchPgImp(bpm, p) = [b |-> bpm, frame |-> NullFrame]

\* C23 happens: every frame is pinned after an eviction; the page that was
\* created and evicted cannot be fetched and no page can be created
C23_Witness ==
    /\ AllPinned(bpm)
    /\ bpm.next_page_id_ \in PageIds(bpm)
    /\ \E p \in PageIds(bpm) :
           p < bpm.next_page_id_ /\ ~Resident(bpm, p) /\ FetchPgImp(bpm, p).frame = NullFrame
    /\ NewPgImp(bpm).frame = NullFrame

\* C24: DeletePage(p) of a resident page.  With a pin count above 0 it returns
\* false and changes nothing.  With pin count 0 it returns true, and then p is
\* not in the directory, the frame is not tracked by the replacer, it is on
\* the free list exactly once with page id INVALID, pin count 0, dirty false
\* and zeroed bytes, and the bytes of a dirty frame were written to disk
\* before the frame was cleared.
C24_DeletePage ==
    \A p \in PageIds(bpm) :
        Resident(bpm, p) =>
            LET f == FrameOf(bpm, p)
                r == DeletePgImp(bpm, p)
            IN  IF bpm.pages_[f].pin_count_ > 0
                THEN r = [b |-> bpm, ret |-> FALSE, threw |-> FALSE]
                ELSE /\ r.ret /\ ~r.threw
                     /\ ~Resident(r.b, p)
                     /\ f \notin DOMAIN r.b.replacer_.mp_
                     /\ Occurrences(r.b.free_list_, f) = 1
                     /\ r.b.pages_[f] = FreshPage
                     /\ bpm.pages_[f].is_dirty_ => r.b.disk[p] = bpm.pages_[f].data_

\* C24 happens: a resident page with pin count 0 is dirty with bytes its disk
\* copy does not hold, while a frame that a DeletePage returned is free
C24_Witness ==
    /\ \E p \in PageIds(bpm) :
           /\ Resident(bpm, p)
           /\ bpm.pages_[FrameOf(bpm, p)].pin_count_ = 0
           /\ bpm.pages_[FrameOf(bpm, p)].is_dirty_
           /\ bpm.pages_[FrameOf(bpm, p)].data_ # bpm.disk[p]
    /\ bpm.free_list_ # <<>>
    /\ bpm.replacer_.current_timestamp_ >= bpm.pool_size_

\* C25: UnpinPage, FlushPage and DeletePage each return false for a page id
\* that is not in the directory, without an error and without changing the pool.
C25_NotResidentReturnsFalse ==
    \A p \in PageIds(bpm) :
        ~Resident(bpm, p) =>
            /\ \A d \in BOOLEAN : UnpinPgImp(bpm, p, d) = [b |-> bpm, ret |-> FALSE]
            /\ FlushPgImp(bpm, p) = [b |-> bpm, ret |-> FALSE]
            /\ DeletePgImp(bpm, p) = [b |-> bpm, ret |-> FALSE, threw |-> FALSE]

\* C26: FlushPage(p) of a resident page returns true, writes the frame's bytes
\* to disk under p and clears the dirty flag; pin counts, the replacer
\* (evictable flags and access history), the directory, the free list, the
\* bytes of the frames and the other pages on disk stay as they were.
C26_FlushPage ==
    \A p \in PageIds(bpm) :
        Resident(bpm, p) =>
            LET f == FrameOf(bpm, p)
                r == FlushPgImp(bpm, p)
            IN  /\ r.ret
                /\ r.b.disk[p] = bpm.pages_[f].data_
                /\ r.b = [bpm EXCEPT !.disk[p] = bpm.pages_[f].data_,
                                      !.pages_[f].is_dirty_ = FALSE]

\* C26 happens: a pinned resident page is dirty with bytes its disk copy does
\* not hold, and FlushPage changes the disk copy
C26_Witness ==
    \E p \in PageIds(bpm) :
        /\ Resident(bpm, p)
        /\ bpm.pages_[FrameOf(bpm, p)].pin_count_ > 0
        /\ bpm.pages_[FrameOf(bpm, p)].is_dirty_
        /\ bpm.pages_[FrameOf(bpm, p)].data_ # ZeroData
        /\ FlushPgImp(bpm, p).b.disk[p] # bpm.disk[p]

-----------------------------------------------------------------------------
(* Properties of the B+ tree.  kv is what the calls so far should have left *)
(* in the tree: the keys inserted and not removed, each with the value of   *)
(* the Insert that stored it.                                               *)

\* the bytes of a page: the frame's when the page is resident, else the disk's
PageData(b, page_id) ==
    IF Resident(b, page_id) THEN b.pages_[FrameOf(b, page_id)].data_ ELSE DiskRead(b, page_id)

\* the node stored under a page id; a page id outside the disk holds no node
NodeOf(b, page_id) ==
    IF page_id \in PageIds(b) THEN NodeView(PageData(b, page_id)) ELSE NodeView(ZeroData)

\* C2: point-query correctness.  On a tree that holds a root, after any
\* sequence of Insert and Remove calls, GetValue(k) returns true with the value
\* stored by the insert for every key inserted and not later removed, and
\* false for every key never inserted or removed.
C2_PointQuery ==
    (tree.st = "ok" /\ tree.root_page_id_ # INVALID_PAGE_ID) =>
        \A k \in 1..MaxKey :
            LET r == BPT_GetValue(Machine("forward"), k)
            IN  /\ Ok(r.m)
                /\ r.ret = (k \in DOMAIN kv)
                /\ k \in DOMAIN kv => r.value = kv[k]

\* the keys stored in the leaves under a page, down to height levels
RECURSIVE SubtreeKeys(_, _, _)
SubtreeKeys(b, page_id, height) ==
    LET d == NodeOf(b, page_id)
    IN  IF IsLeafPage(d) THEN {d.array_[i].key : i \in 1..Len(d.array_)}
        ELSE IF height = 0 \/ ~IsNode(d) THEN {}
        ELSE UNION {SubtreeKeys(b, d.array_[i].value, height - 1) : i \in 1..Len(d.array_)}

\* every internal node under a page keeps the keys under child[i] within
\* [key[i], key[i+1]), key[0] being -infinity and key[size] +infinity
RECURSIVE SeparatorsHold(_, _, _)
SeparatorsHold(b, page_id, height) ==
    LET d == NodeOf(b, page_id)
        n == Len(d.array_)
    IN  IF height = 0 \/ PageType(d) # "INTERNAL_PAGE" THEN TRUE
        ELSE \A i \in 1..n :
                 /\ \A k \in SubtreeKeys(b, d.array_[i].value, height - 1) :
                        /\ i > 1 => k >= d.array_[i].key
                        /\ i < n => k < d.array_[i + 1].key
                 /\ SeparatorsHold(b, d.array_[i].value, height - 1)

\* C3: separator invariant.  After every Insert or Remove that returns, every
\* internal node of the tree keeps all keys under child[i] >= key[i] and
\* < key[i+1].
C3_SeparatorInvariant ==
    (tree.st = "ok" /\ tree.root_page_id_ # INVALID_PAGE_ID) =>
        SeparatorsHold(bpm, tree.root_page_id_, MaxHeight)

\* C4: pin discipline.  When GetValue, Insert or Remove returns, the pin count
\* of every frame (so of every page) equals its value before the call.
C4_PinDiscipline ==
    [][tree'.st = "ok" =>
           \A f \in Frames(bpm) : bpm'.pages_[f].pin_count_ = bpm.pages_[f].pin_count_]_vars

\* C10: Insert return value.  An Insert that returns has returned false exactly
\* when the key was already in the tree, and true in every other case, a split
\* of a leaf or a new root included.
C10_InsertReturnValue ==
    (last.op = "Insert" /\ tree.st = "ok") => (last.ret = ~last.present)

\* the records of the header page
HeaderRecords(b) == Records(PageData(b, HEADER_PAGE_ID))

\* C15: the header record tracks the root.  After every Insert or Remove that
\* returns, the header page's record for the index, once there is one, equals
\* the tree's root_page_id_ (INVALID after the last key is removed), and there
\* is one while the tree has a root.
C15_HeaderTracksRoot ==
    tree.st = "ok" =>
        /\ tree.root_page_id_ # INVALID_PAGE_ID => IndexName \in DOMAIN HeaderRecords(bpm)
        /\ IndexName \in DOMAIN HeaderRecords(bpm)
               => HeaderRecords(bpm)[IndexName] = tree.root_page_id_

\* every node under a page holds at most its maximum, and unless it is the
\* root at least its minimum, ceil(max / 2)
RECURSIVE SizesHold(_, _, _, _)
SizesHold(b, page_id, root_id, height) ==
    LET d == NodeOf(b, page_id)
        max == IF IsLeafPage(d) THEN LeafMaxSize ELSE InternalMaxSize
    IN  /\ IsNode(d)
        /\ GetSize(d) <= max
        /\ page_id # root_id => GetSize(d) >= (max + 1) \div 2
        /\ (PageType(d) = "INTERNAL_PAGE" /\ height > 0) =>
               \A i \in 1..Len(d.array_) : SizesHold(b, d.array_[i].value, root_id, height - 1)

\* C16: node size bounds.  After every Insert or Remove that returns, every
\* leaf of the tree holds at most leaf_max entries, every internal node at
\* most internal_max children, and every node but the root at least
\* ceil(max / 2).
C16_NodeSizeBounds ==
    (tree.st = "ok" /\ tree.root_page_id_ # INVALID_PAGE_ID) =>
        SizesHold(bpm, tree.root_page_id_, tree.root_page_id_, MaxHeight)

\* the leaves under a page, left to right
RECURSIVE TreeLeaves(_, _, _)
TreeLeaves(b, page_id, height) ==
    LET d == NodeOf(b, page_id)
        RECURSIVE Under(_)
        Under(i) == IF i > Len(d.array_) THEN <<>>
                    ELSE TreeLeaves(b, d.array_[i].value, height - 1) \o Under(i + 1)
    IN  IF PageType(d) = "INTERNAL_PAGE" /\ height > 0 THEN Under(1) ELSE <<page_id>>

\* the pages met from a page along next_page_id, until INVALID; a walk that
\* leaves the leaves, or is longer than there are pages, ends with -2
RECURSIVE LeafChain(_, _, _)
LeafChain(b, page_id, fuel) ==
    IF page_id = INVALID_PAGE_ID THEN <<>>
    ELSE IF fuel = 0 \/ ~IsLeafPage(NodeOf(b, page_id)) THEN <<-2>>
    ELSE <<page_id>> \o LeafChain(b, NodeOf(b, page_id).next_page_id_, fuel - 1)

\* the keys of the leaves of a chain, in the order of a scan
RECURSIVE ChainKeys(_, _)
ChainKeys(b, chain) ==
    IF chain = <<>> THEN <<>>
    ELSE [i \in 1..Len(NodeOf(b, Head(chain)).array_) |-> NodeOf(b, Head(chain)).array_[i].key]
         \o ChainKeys(b, Tail(chain))

\* C17: the leaf chain.  After any sequence of Insert and Remove calls,
\* following next_page_id from the leftmost leaf ends at INVALID and visits
\* every leaf of the tree exactly once and no other page; the keys met on the
\* way are ascending and are exactly the stored keys.
C17_LeafChain ==
    (tree.st = "ok" /\ tree.root_page_id_ # INVALID_PAGE_ID) =>
        LET leaves == TreeLeaves(bpm, tree.root_page_id_, MaxHeight)
            chain == LeafChain(bpm, Head(leaves), Cardinality(PageIds(bpm)))
            keys == ChainKeys(bpm, chain)
        IN  /\ \A i, j \in 1..Len(chain) : chain[i] = chain[j] => i = j
            /\ {chain[i] : i \in 1..Len(chain)} = {leaves[i] : i \in 1..Len(leaves)}
            /\ \A i \in 1..(Len(keys) - 1) : keys[i] < keys[i + 1]
            /\ {keys[i] : i \in 1..Len(keys)} = DOMAIN kv

\* the pin count of a page: that of its frame, 0 for a page not in the pool
PinCount(b, page_id) ==
    IF Resident(b, page_id) THEN b.pages_[FrameOf(b, page_id)].pin_count_ ELSE 0

\* C18: index iterator liveness.  When Begin(), Begin(key) or End() returns an
\* iterator on a non-empty tree, the call has left one pin more than before
\* on the leaf the iterator references (so its pin count is at least 1), and
\* the pin count of every other page is what it was before the call.
C18_IteratorLiveness ==
    [][(last'.op \in {"Begin", "BeginKey", "End"} /\ tree'.st = "ok"
            /\ tree.root_page_id_ # INVALID_PAGE_ID)
        => /\ last'.it.leaf # INVALID_PAGE_ID
           /\ PinCount(bpm', last'.it.leaf) = PinCount(bpm, last'.it.leaf) + 1
           /\ \A p \in PageIds(bpm) \ {last'.it.leaf} : PinCount(bpm', p) = PinCount(bpm, p)]_vars

-----------------------------------------------------------------------------
(* Properties of the extendible hash table.                                 *)

\* how many pairs with the key the buckets of the table hold
EntryCount(t, key) ==
    Cardinality({e \in {<<id, i>> : id \in DOMAIN t.buckets, i \in 1..HashBucketSize + 1} :
                    /\ e[2] <= Len(t.buckets[e[1]].list_)
                    /\ t.buckets[e[1]].list_[e[2]][1] = key})

\* C11: the hash table behaves as a map.  After any sequence of Insert and
\* Remove calls, directory doublings and bucket splits included, Find(k)
\* returns the value of the latest Insert(k, v) that no Remove(k) followed and
\* not-found otherwise; a key is stored in one entry at most, so an Insert of
\* an existing key overwrites; Remove(k) returns true iff k was present.
C11_HashTableIsMap ==
    /\ \A k \in HashKeys :
           /\ EHT_Find(ht.t, k).found = (k \in DOMAIN ht.m)
           /\ k \in DOMAIN ht.m => EHT_Find(ht.t, k).value = ht.m[k]
           /\ EntryCount(ht.t, k) = IF k \in DOMAIN ht.m THEN 1 ELSE 0
    /\ ht.last.op \in {"Remove", "Find"} => ht.last.ret = ht.last.present

\* C11 happens: the directory has doubled three times, two of the three keys
\* that forced it have been removed, and the last call overwrote the value of
\* the remaining key.
C11_Witness ==
    /\ ht.t.global_depth_ = 3
    /\ Cardinality(DOMAIN ht.m) = 1
    /\ ht.last.op = "Insert" /\ ht.last.present
    /\ EHT_Find(ht.t, ht.last.key).value = ht.last.value

\* C12: Insert terminates.  For every table the calls can leave and every key,
\* the retry loop of Insert ends within HashMaxIterations iterations; every
\* iteration but the last either doubles the directory (global depth + 1) or
\* splits the target bucket (number of buckets + 1); the key is stored on exit.
C12_InsertTerminates ==
    \A k \in HashKeys, v \in HashValues :
        LET run == InsertRun(ht.t, k, v, HashMaxIterations)
            Before(i) == IF i = 1 THEN ht.t ELSE run[i - 1].t
        IN  /\ run[Len(run)].done
            /\ \A i \in 1..(Len(run) - 1) :
                   \/ /\ run[i].t.global_depth_ = Before(i).global_depth_ + 1
                      /\ Len(run[i].t.dir_) = 2 * Len(Before(i).dir_)
                      /\ run[i].t.num_buckets_ = Before(i).num_buckets_
                   \/ /\ run[i].t.num_buckets_ = Before(i).num_buckets_ + 1
                      /\ Cardinality(DOMAIN run[i].t.buckets) = Cardinality(DOMAIN Before(i).buckets) + 1
                      /\ run[i].t.global_depth_ = Before(i).global_depth_
            /\ EHT_Find(run[Len(run)].t, k) = [found |-> TRUE, value |-> v]
            /\ EHT_Insert(ht.t, k, v) = run[Len(run)].t

\* C12 happens: the last Insert went through three doublings and three splits
\* before it stored its key.
C12_Witness ==
    /\ ht.last.op = "Insert"
    /\ ht.last.iters >= 7
    /\ EHT_Find(ht.t, ht.last.key).found

-----------------------------------------------------------------------------
(* Properties of the LRU-K replacer.                                        *)

\* the backward k-distance of a frame with the accesses a, as a pair that
\* orders the frames: <<0, first access>> when there are fewer than k accesses
\* (distance +infinity), else <<1, k-th most recent access>>
BackwardK(a, k) == IF Len(a) < k THEN <<0, a[1]>> ELSE <<1, a[Len(a) - k + 1]>>

\* x is the better victim: the larger distance, or the earlier timestamp
Farther(x, y) == x[1] < y[1] \/ (x[1] = y[1] /\ x[2] < y[2])

\* k = 2, accesses A B A B C, all evictable: Evict returns C
LRUExample ==
    LET a1 == LRUK_RecordAccess(LRUK_New(3, 2), 0)
        b1 == LRUK_RecordAccess(a1, 1)
        a2 == LRUK_RecordAccess(b1, 0)
        b2 == LRUK_RecordAccess(a2, 1)
        c1 == LRUK_RecordAccess(b2, 2)
        e  == LRUK_SetEvictable(LRUK_SetEvictable(LRUK_SetEvictable(c1, 0, TRUE), 1, TRUE), 2, TRUE)
    IN  LRUK_Evict(e).ok /\ LRUK_Evict(e).frame_id = 2

\* C13: victim selection.  When every evictable frame has a recorded access,
\* Evict fails if no frame is evictable and else removes the evictable frame
\* with the largest backward k-distance: a frame with fewer than k accesses
\* before any with k, the earliest first access among those with fewer than k,
\* the oldest k-th most recent access among the others; and with k = 2 and
\* accesses A B A B C, all evictable, Evict returns C.
C13_VictimSelection ==
    /\ Evictables(lru.r) \subseteq DOMAIN lru.acc =>
           LET ev == LRUK_Evict(lru.r)
           IN  IF Evictables(lru.r) = {} THEN ~ev.ok /\ ev.r = lru.r
               ELSE /\ ev.ok
                    /\ ev.frame_id \in Evictables(lru.r)
                    /\ \A g \in Evictables(lru.r) \ {ev.frame_id} :
                           Farther(BackwardK(lru.acc[ev.frame_id], lru.r.k_),
                                   BackwardK(lru.acc[g], lru.r.k_))
                    /\ ev.frame_id \notin DOMAIN ev.r.mp_
                    /\ LRUK_Size(ev.r) = LRUK_Size(lru.r) - 1
    /\ LRUExample

\* C13 happens: an Evict has taken a frame with k accesses out of two or more
\* evictable frames, and left evictable a frame with more than k accesses, of
\* which the replacer keeps the last k.
C13_Witness ==
    /\ lru.last.op = "Evict" /\ lru.last.ret /\ lru.last.present /\ lru.last.value >= 2
    /\ Evictables(lru.r) \subseteq DOMAIN lru.acc
    /\ \E f \in Evictables(lru.r) : Len(lru.acc[f]) > lru.r.k_

\* C14: SetEvictable on a frame the replacer does not know fails and leaves
\* the replacer unchanged: no entry is created, Size() does not change, and no
\* later Evict returns the frame.
C14_SetEvictableUnknownFrame ==
    [][(lru'.last.op = "SetEvictable" /\ ~lru'.last.present /\ lru' # lru)
           => /\ lru'.r = lru.r
              /\ lru'.last.key \notin DOMAIN lru'.r.mp_
              /\ LRUK_Size(lru'.r) = LRUK_Size(lru.r)
              /\ LRUK_Evict(lru'.r).frame_id # lru'.last.key]_vars

-----------------------------------------------------------------------------
(* Properties of the join executors.                                        *)

\* C19: nested index join on a miss.  For a left row whose probe of the index
\* returns no RID, a LEFT join produces the left columns followed by NULLs,
\* hands no RID to GetTuple and reads no element of the empty rids, and an
\* INNER join produces nothing and fetches nothing; for a row whose probe
\* returns RIDs, exactly the tuple of the first RID is fetched and joined.
C19_IndexJoinMiss ==
    exec.kind = "nij" =>
        \A i \in 1..Len(exec.log) :
            LET p == exec.log[i]
                rids == ScanKey(exec.table, p.left[1])
            IN  IF rids = <<>>
                THEN /\ p.fetched = <<>>
                     /\ ~p.wild
                     /\ p.row = IF exec.join_type = "LEFT" THEN p.left \o NullRow(2) ELSE <<>>
                ELSE /\ p.fetched = <<rids[1]>>
                     /\ p.row = p.left \o exec.table[rids[1]]

\* the rows a join of the left tuples with the right tuples is to produce
RECURSIVE JoinRows(_, _, _)
JoinRows(join_type, left, right) ==
    IF left = <<>> THEN <<>>
    ELSE LET l == Head(left)
             ms == SelectSeq(right, LAMBDA r : EvaluateJoin(l, r) = "true")
         IN  (IF ms # <<>> THEN [i \in 1..Len(ms) |-> l \o ms[i]]
              ELSE IF join_type = "LEFT" THEN <<l \o NullRow(2)>> ELSE <<>>)
             \o JoinRows(join_type, Tail(left), right)

\* C20: nested loop join output.  Over the Next calls after one Init, the
\* executor produces, for each left row in child order, one joined row per
\* right row (in right-child order) on which the predicate is a non-null true;
\* a LEFT join produces for a left row without a match one row with NULL right
\* columns, and none for a row with a match; every Next that returns true
\* has produced one row, and Next returns false once all rows are produced.
C20_NestedLoopJoinOutput ==
    exec.kind = "nlj" =>
        LET want == JoinRows(exec.join_type, exec.left, exec.right_tuples_)
        IN  /\ Len(exec.out) <= Len(want)
            /\ exec.out = SubSeq(want, 1, Len(exec.out))
            /\ exec.ret => Len(exec.out) = exec.calls
            /\ ~exec.ret => exec.out = want /\ Len(exec.out) = exec.calls - 1

\* the example: LEFT join of L = [1, 2] with R = [(2, a), (2, b)] has run to
\* its end and produced (1, NULL, NULL), (2, 2, a), (2, 2, b)
C20_Witness ==
    /\ exec.kind = "nlj" /\ exec.join_type = "LEFT" /\ ~exec.ret
    /\ exec.left = <<<<1>>, <<2>>>>
    /\ exec.right_tuples_ = <<<<2, 11>>, <<2, 12>>>>
    /\ exec.out = <<<<1, NULL, NULL>>, <<2, 2, 11>>, <<2, 2, 12>>>>


\* the rows an index scan of the RIDs matches produces
ScanRows(table, matches) == [i \in 1..Len(matches) |-> GetTuple(table, matches[i])]

\* C21: Init is idempotent.  Whatever an executor did before its last Init,
\* before or after it was drained, the Next calls after that Init produce
\* what they produce on a freshly initialized executor: a nested loop join
\* the join rows of its children (the right side and the cursor start again),
\* an index scan each buffered RID once, and an Insert or Delete returns true
\* with its count on the first Next, it is not left in its end state.
C21_InitRestarts ==
    /\ exec.kind = "nlj" =>
           LET want == JoinRows(exec.join_type, exec.left, exec.right)
           IN  /\ Len(exec.out) <= Len(want)
               /\ exec.out = SubSeq(want, 1, Len(exec.out))
               /\ ~exec.ret => exec.out = want
    /\ exec.kind = "iscan" =>
           LET want == ScanRows(exec.table, exec.matches)
           IN  /\ Len(exec.out) <= Len(want)
               /\ exec.out = SubSeq(want, 1, Len(exec.out))
               /\ ~exec.ret => exec.out = want
    /\ exec.kind \in {"insert", "delete"} /\ exec.calls >= 1 =>
           /\ Len(exec.out) = 1
           /\ exec.ret <=> exec.calls = 1

\* C22: Insert and Delete.  The first Next after Init drains the child; every
\* index holds an entry for exactly the rows the heap holds (Insert) or still
\* holds unmarked (Delete); that Next returns true with one tuple whose one
\* integer is the number of rows the heap took or marked, which may be 0; and
\* every later Next returns false and produces nothing.
C22_DmlCount ==
    exec.kind \in {"insert", "delete"} =>
        /\ exec.calls = 0 => exec.out = <<>>
        /\ exec.calls >= 1 =>
               /\ exec.child = <<>>
               /\ exec.out = <<<<exec.done>>>>
               /\ exec.ret <=> exec.calls = 1
               /\ \A i \in DOMAIN exec.indexes :
                      exec.indexes[i] = {<<exec.heap[r][1], r>> :
                                            r \in {q \in 1..Len(exec.heap) : exec.heap[q][2] = 0}}


\* C27: no lock is held across disk I/O.  Whenever a thread is inside a
\* ReadPage or WritePage call that a method of the buffer pool makes, that
\* thread does not hold the latch of the pool, and so another thread can
\* enter a method of the pool.
C27_NoLatchAcrossIO ==
    \A t \in Threads :
        threads.pc[t] \in {"ReadPage", "WritePage"} => threads.latch # t


\* C28: shared state is read only under the component's lock.  Every Size()
\* read curr_size_ while its thread held the replacer's mutex, and every
\* GetRootPageId() read root_page_id_ while its thread held the root latch;
\* neither returned a value from the middle of a concurrent Evict,
\* SetEvictable, Remove or Insert.
C28_ReadsUnderLock ==
    \A t \in Threads : threads.seen[t].locked /\ threads.seen[t].settled


\* C29: Remove(frame).  On a tracked frame that is not evictable it fails with
\* an error and leaves entries, histories and Size as they were; on a tracked
\* evictable frame it deletes the entry with its history (a later access
\* starts a history of one timestamp), leaves the other entries alone and
\* takes 1 off Size; on a frame that is not tracked it changes nothing.
C29_Remove ==
    \A f \in LRUFrameIds :
        LET rm == LRUK_Remove(lru.r, f)
        IN  IF f \notin DOMAIN lru.r.mp_
            THEN rm = [threw |-> FALSE, r |-> lru.r]
            ELSE IF ~lru.r.mp_[f].enable_evit_
            THEN rm = [threw |-> TRUE, r |-> lru.r]
            ELSE /\ ~rm.threw
                 /\ DOMAIN rm.r.mp_ = DOMAIN lru.r.mp_ \ {f}
                 /\ \A g \in DOMAIN rm.r.mp_ : rm.r.mp_[g] = lru.r.mp_[g]
                 /\ LRUK_Size(rm.r) = LRUK_Size(lru.r) - 1
                 /\ LRUK_Size(rm.r) = Cardinality(Evictables(rm.r))
                 /\ Len(LRUK_RecordAccess(rm.r, f).mp_[f].time_) = 1
                 /\ rm.r.current_timestamp_ = lru.r.current_timestamp_

\* C29 happens: after a Remove that failed, one frame is tracked and not
\* evictable, one is tracked, evictable and has two accesses, one is not tracked
C29_Witness ==
    /\ lru.last.op = "Remove" /\ ~lru.last.ret
    /\ \E f, g, h \in LRUFrameIds :
           /\ f \in DOMAIN lru.r.mp_ /\ ~lru.r.mp_[f].enable_evit_
           /\ g \in DOMAIN lru.r.mp_ /\ lru.r.mp_[g].enable_evit_ /\ Len(lru.r.mp_[g].time_) = 2
           /\ h \notin DOMAIN lru.r.mp_

\* C30: out-of-range frame ids fail fast.  A RecordAccess, SetEvictable or
\* Remove with a frame id outside 0..num_frames-1 (num_frames itself and
\* negative ids included) raises an error, and the replacer never holds an
\* entry for such an id.
C30_OutOfRangeFailsFast ==
    /\ lru.last.op # "none" /\ lru.last.key \notin LRUFrameIds => lru.last.present
    /\ DOMAIN lru.r.mp_ \subseteq LRUFrameIds


\* C31: Evict.  It returns false and changes nothing exactly when no tracked
\* frame is evictable, which is when Size() is 0; otherwise it returns true,
\* takes 1 off Size, and removes the entry of the victim, an evictable frame,
\* with its whole history: the other entries stay, and a later RecordAccess
\* of the victim starts a history of one timestamp.
C31_Evict ==
    LET ev == LRUK_Evict(lru.r)
    IN  /\ (Evictables(lru.r) = {}) <=> (LRUK_Size(lru.r) = 0)
        /\ IF LRUK_Size(lru.r) = 0
           THEN ev.ok = FALSE /\ ev.r = lru.r
           ELSE /\ ev.ok
                /\ ev.frame_id \in Evictables(lru.r)
                /\ LRUK_Size(ev.r) = LRUK_Size(lru.r) - 1
                /\ DOMAIN ev.r.mp_ = DOMAIN lru.r.mp_ \ {ev.frame_id}
                /\ \A g \in DOMAIN ev.r.mp_ : ev.r.mp_[g] = lru.r.mp_[g]
                /\ ev.r.current_timestamp_ = lru.r.current_timestamp_
                /\ LRUK_RecordAccess(ev.r, ev.frame_id).mp_[ev.frame_id].time_
                       = <<lru.r.current_timestamp_ + 1>>

\* C31 happens: an Evict has failed on a replacer that tracks frames none of
\* which is evictable, one of them with k accesses
C31_Witness ==
    /\ lru.last.op = "Evict" /\ ~lru.last.ret
    /\ \E f \in DOMAIN lru.r.mp_ : Len(lru.r.mp_[f].time_) = lru.r.k_

\* C40: size accounting.  Size() is the number of tracked frames whose
\* evictable flag is true; every frame keeps at most k timestamps, oldest
\* first and strictly increasing, none above the counter and none shared by
\* two frames; and a RecordAccess changes neither Size() nor any evictable
\* flag and records a timestamp above every timestamp recorded before.
C40_SizeAccounting ==
    /\ LRUK_Size(lru.r) = Cardinality(Evictables(lru.r))
    /\ \A f \in DOMAIN lru.r.mp_ :
           LET q == lru.r.mp_[f].time_
           IN  /\ Len(q) <= lru.r.k_
               /\ \A i \in 1..Len(q) : q[i] <= lru.r.current_timestamp_
               /\ \A i, j \in 1..Len(q) : i < j => q[i] < q[j]
               /\ \A g \in DOMAIN lru.r.mp_ \ {f} :
                      \A i \in 1..Len(q), j \in 1..Len(lru.r.mp_[g].time_) :
                          q[i] # lru.r.mp_[g].time_[j]
    /\ \A f \in LRUFrameIds :
           LET r2 == LRUK_RecordAccess(lru.r, f)
               q2 == r2.mp_[f].time_
           IN  /\ LRUK_Size(r2) = LRUK_Size(lru.r)
               /\ Evictables(r2) = Evictables(lru.r)
               /\ Len(q2) <= lru.r.k_
               /\ q2[Len(q2)] > lru.r.current_timestamp_
               /\ \A g \in DOMAIN lru.r.mp_ \ {f} : r2.mp_[g] = lru.r.mp_[g]

\* C40 happens: after a RecordAccess the replacer tracks an evictable frame
\* that has dropped its oldest timestamp and a frame that is not evictable
C40_Witness ==
    /\ lru.last.op = "RecordAccess"
    /\ LRUK_Size(lru.r) >= 1
    /\ \E f \in Evictables(lru.r) :
           /\ f \in DOMAIN lru.acc /\ Len(lru.acc[f]) > lru.r.k_
    /\ \E g \in DOMAIN lru.r.mp_ : ~lru.r.mp_[g].enable_evit_

-----------------------------------------------------------------------------
(* The directory of the extendible hash table.                              *)

\* the buckets the directory of t refers to
Referenced(t) == {t.dir_[i] : i \in 1..Len(t.dir_)}

\* the directory slots (from 0) that refer to the bucket id
SlotsOf(t, id) == {i \in 0..(Len(t.dir_) - 1) : t.dir_[i + 1] = id}

\* the tag of the bucket id: the low depth_ bits of a slot that refers to it
TagOf(t, id) ==
    (CHOOSE i \in SlotsOf(t, id) : \A j \in SlotsOf(t, id) : i <= j) % Pow2(t.buckets[id].depth_)

\* C32: the directory is well formed.  After any sequence of Insert and Remove
\* calls the directory has 2^global_depth slots; no bucket is deeper than the
\* directory; the slots that refer to a bucket are exactly those whose low
\* local-depth bits are the bucket's tag, and every key stored in the bucket
\* hashes to that tag; GetNumBuckets() is the number of distinct buckets the
\* directory refers to.
C32_DirectoryWellFormed ==
    /\ Len(ht.t.dir_) = Pow2(ht.t.global_depth_)
    /\ \A id \in Referenced(ht.t) :
           /\ ht.t.buckets[id].depth_ <= ht.t.global_depth_
           /\ SlotsOf(ht.t, id) = {i \in 0..(Len(ht.t.dir_) - 1) :
                                      i % Pow2(ht.t.buckets[id].depth_) = TagOf(ht.t, id)}
           /\ \A n \in 1..Len(ht.t.buckets[id].list_) :
                  Hash(ht.t.buckets[id].list_[n][1]) % Pow2(ht.t.buckets[id].depth_)
                      = TagOf(ht.t, id)
    /\ ht.t.num_buckets_ = Cardinality(Referenced(ht.t))

\* C32 happens: the directory has doubled twice, a bucket that two slots share
\* is shallower than the directory, a split has left an empty bucket behind,
\* and a Remove has run since.
C32_Witness ==
    /\ ht.t.global_depth_ >= 2
    /\ \E id \in Referenced(ht.t) :
           /\ ht.t.buckets[id].depth_ < ht.t.global_depth_
           /\ Cardinality(SlotsOf(ht.t, id)) >= 2
    /\ \E id \in Referenced(ht.t) : ht.t.buckets[id].list_ = <<>> /\ ht.t.buckets[id].depth_ >= 2
    /\ ht.last.op = "Remove" /\ ht.last.ret

\* the number of Insert calls so far on the table that only grows
GrowN == Cardinality(DOMAIN ht.m)

\* ceil(n / d)
CeilDiv(n, d) == (n + d - 1) \div d

\* C33: the bucket count is bounded.  After N >= 1 inserts of distinct keys
\* into an empty table with bucket size B, whatever the keys are,
\* GetNumBuckets() <= 2 * ceil(N / B).
C33_BucketBound ==
    GrowN >= 1 => ht.t.num_buckets_ <= 2 * CeilDiv(GrowN, ht.t.bucket_size_)

\* C33, amended: the bound holds after N >= 1 inserts, in any order, of the
\* integer keys 0..N-1, which std::hash leaves as they are; for other keys the
\* bucket count is bounded by the number of directory slots only.
C33_DenseBucketBound ==
    /\ (GrowN >= 1 /\ DOMAIN ht.m = 0..(GrowN - 1))
           => ht.t.num_buckets_ <= 2 * CeilDiv(GrowN, ht.t.bucket_size_)
    /\ ht.t.num_buckets_ <= Pow2(ht.t.global_depth_)

\* C33 happens: MaxGrowInserts keys with the hashes 0..MaxGrowInserts-1 are in
\* the table, and the last Insert split a bucket.
C33_Witness ==
    /\ GrowN = MaxGrowInserts
    /\ DOMAIN ht.m = 0..(GrowN - 1)
    /\ ht.last.op = "Insert" /\ ht.last.iters >= 2
    /\ ht.t.num_buckets_ >= 3

-----------------------------------------------------------------------------
(* Optimizer::OptimizeSortLimitAsTopN.  A plan node is its type, its output *)
(* schema, the limit of a Limit or TopN (n_), the order-bys of a Sort or    *)
(* TopN, and its children in order; a field a type does not have is 0.      *)

PlanNode(type, schema, limit, order_bys, children) ==
    [type |-> type, output_schema_ |-> schema, limit_ |-> limit,
     order_bys_ |-> order_bys, children_ |-> children]

\* AbstractPlanNode::CloneWithChildren: the node with other children
CloneWithChildren(plan, children) == [plan EXCEPT !.children_ = children]

\* std::make_shared<TopNPlanNode>(output, child, order_bys, n)
TopNPlanNode(output, child, order_bys, n) == PlanNode("TopN", output, n, order_bys, <<child>>)

\* a rule that rewrites the root of the plan and leaves its children as they are
OptimizeRootOnly(plan) ==
    IF plan.type = "Limit" /\ plan.children_[1].type = "Sort"
    THEN TopNPlanNode(plan.output_schema_, plan.children_[1].children_[1],
                      plan.children_[1].order_bys_, plan.limit_)
    ELSE plan

\* Optimizer::OptimizeSortLimitAsTopN.  A Limit and a Sort have one child by
\* construction, so neither BUSTUB_ENSURE fails.
RECURSIVE OptimizeSortLimitAsTopN(_)
OptimizeSortLimitAsTopN(plan) ==
    With(CloneWithChildren(plan, [i \in 1..Len(plan.children_) |->
                                     OptimizeSortLimitAsTopN(plan.children_[i])]),
         LAMBDA optimiza_plan :
             IF optimiza_plan.type = "Limit" /\ optimiza_plan.children_[1].type = "Sort"
             THEN TopNPlanNode(optimiza_plan.output_schema_,
                               optimiza_plan.children_[1].children_[1],
                               optimiza_plan.children_[1].order_bys_,
                               optimiza_plan.limit_)
             ELSE optimiza_plan)

\* the plans the planner hands to the rule, built bottom-up: a scan, then one
\* node after the other on top of the plan so far
\* schemas are numbered 1..MaxPlanField; the limit of a Limit and the order-bys
\* of a Sort are numbered after the node's schema, apart from each other and
\* from the schemas
PlanFields == 1..MaxPlanField
SeqScan(schema) == PlanNode("SeqScan", schema, 0, 0, <<>>)
LimitOver(schema, child) == PlanNode("Limit", schema, MaxPlanField + schema, 0, <<child>>)
SortOver(schema, child) == PlanNode("Sort", schema, 0, 2 * MaxPlanField + schema, <<child>>)
SortedTop == LimitOver(1, SortOver(MaxPlanField, SeqScan(1)))

\* the number of nodes above the leaves on the longest path of the plan
RECURSIVE PlanHeight(_)
PlanHeight(plan) ==
    IF plan.children_ = <<>> THEN 0
    ELSE With({PlanHeight(plan.children_[i]) : i \in 1..Len(plan.children_)}, LAMBDA hs :
             1 + CHOOSE h \in hs : \A g \in hs : g <= h)

Planned(plan) ==
    exec' = [kind |-> "plan", plan |-> plan, optimized |-> OptimizeSortLimitAsTopN(plan)]

PlanScan(schema) ==
    /\ exec.kind = "none"
    /\ Planned(SeqScan(schema))
    /\ UNCHANGED <<bpm, poolvars, treevars, threads, ht, lru>>

CanPlan == exec.kind = "plan" /\ PlanHeight(exec.plan) < MaxPlanHeight

PlanLimit(schema) ==
    /\ CanPlan
    /\ Planned(LimitOver(schema, exec.plan))
    /\ UNCHANGED <<bpm, poolvars, treevars, threads, ht, lru>>

PlanSort(schema) ==
    /\ CanPlan
    /\ Planned(SortOver(schema, exec.plan))
    /\ UNCHANGED <<bpm, poolvars, treevars, threads, ht, lru>>

PlanTopN ==
    /\ CanPlan
    /\ Planned(TopNPlanNode(1, exec.plan, 2 * MaxPlanField + 1, MaxPlanField + 1))
    /\ UNCHANGED <<bpm, poolvars, treevars, threads, ht, lru>>

\* a join of the plan so far with a Limit over a Sort, on either side
PlanJoin(left) ==
    /\ CanPlan
    /\ Planned(PlanNode("NestedLoopJoin", 1, 0, 0,
                        IF left THEN <<exec.plan, SortedTop>> ELSE <<SortedTop, exec.plan>>))
    /\ UNCHANGED <<bpm, poolvars, treevars, threads, ht, lru>>

NextPlan ==
    \/ \E schema \in PlanFields : PlanScan(schema)
    \/ \E schema \in PlanFields : PlanLimit(schema)
    \/ \E schema \in PlanFields : PlanSort(schema)
    \/ PlanTopN
    \/ \E left \in BOOLEAN : PlanJoin(left)

SpecPlan == Init /\ [][NextPlan]_vars

\* some Limit of the plan has a Sort as its child
RECURSIVE LimitOverSort(_)
LimitOverSort(plan) ==
    \/ plan.type = "Limit" /\ plan.children_[1].type = "Sort"
    \/ \E i \in 1..Len(plan.children_) : LimitOverSort(plan.children_[i])

\* the children of a plan, each one rewritten
Rewritten(plan) ==
    [i \in 1..Len(plan.children_) |-> OptimizeSortLimitAsTopN(plan.children_[i])]

\* C34: the TopN rewrite.  A Limit whose child, once its subtree is rewritten,
\* is a Sort becomes one TopN with the Limit's count and output schema, the
\* Sort's order-bys, and the Sort's rewritten child; every other node keeps
\* its type, its fields and its children in order, each rewritten; the result
\* has no Limit directly over a Sort; the rewrite of the result is the result.
C34_TopNRewrite ==
    exec.kind = "plan" =>
        /\ IF exec.plan.type = "Limit" /\ Rewritten(exec.plan)[1].type = "Sort"
           THEN exec.optimized =
                    [type |-> "TopN",
                     output_schema_ |-> exec.plan.output_schema_,
                     limit_ |-> exec.plan.limit_,
                     order_bys_ |-> Rewritten(exec.plan)[1].order_bys_,
                     children_ |-> Rewritten(exec.plan)[1].children_]
           ELSE /\ exec.optimized.type = exec.plan.type
                /\ exec.optimized.output_schema_ = exec.plan.output_schema_
                /\ exec.optimized.limit_ = exec.plan.limit_
                /\ exec.optimized.order_bys_ = exec.plan.order_bys_
                /\ exec.optimized.children_ = Rewritten(exec.plan)
        /\ ~LimitOverSort(exec.optimized)
        /\ OptimizeSortLimitAsTopN(exec.optimized) = exec.optimized

\* C34 happens: a Limit over a Sort over a Limit over a Sort has become a TopN
\* over a TopN, and the schema of the outer Limit differs from the schema of
\* its Sort.
C34_Witness ==
    /\ exec.kind = "plan"
    /\ exec.plan.type = "Limit" /\ exec.plan.children_[1].type = "Sort"
    /\ exec.plan.output_schema_ # exec.plan.children_[1].output_schema_
    /\ LimitOverSort(exec.plan.children_[1].children_[1])
    /\ exec.optimized.type = "TopN"
    /\ exec.optimized.children_[1].type = "TopN"

\* C34 happens in a second child too: the right side of a join was a Limit
\* over a Sort and is a TopN in the result, under a Sort that was kept.
C34_JoinWitness ==
    /\ exec.kind = "plan"
    /\ exec.plan.type = "Sort" /\ exec.plan.children_[1].type = "NestedLoopJoin"
    /\ exec.optimized.type = "Sort"
    /\ exec.optimized.children_[1].children_[2].type = "TopN"
    /\ exec.optimized.children_[1].children_[1].type = "SeqScan"

-----------------------------------------------------------------------------
(* Parent pointers of the B+ tree.                                          *)

\* every page under page_id names the node it hangs under as its parent
RECURSIVE ParentsHold(_, _, _, _)
ParentsHold(b, page_id, parent_id, height) ==
    LET d == NodeOf(b, page_id)
    IN  /\ d.parent_page_id_ = parent_id
        /\ (PageType(d) = "INTERNAL_PAGE" /\ height > 0) =>
               \A i \in 1..Len(d.array_) : ParentsHold(b, d.array_[i].value, page_id, height - 1)

\* C35: parent pointers.  After every Insert or Remove that returns, the root's
\* parent_page_id is INVALID, and every child a node's slots name has that
\* node's page id as its parent_page_id, the children that an internal split,
\* an internal merge or a borrow between internal siblings moved included.
C35_ParentPointers ==
    (tree.st = "ok" /\ tree.root_page_id_ # INVALID_PAGE_ID) =>
        ParentsHold(bpm, tree.root_page_id_, INVALID_PAGE_ID, MaxHeight)

-----------------------------------------------------------------------------
(* Eviction in NewPage and FetchPage.                                       *)

\* what a NewPage or FetchPage that returned r (for the page new_id, whose
\* frame then holds bytes) did with the frame it took, seen from the pool b
\* before the call: with a free frame no disk write happens; else the frame is
\* the replacer's victim, the bytes of a dirty victim are on disk under its
\* page id, the directory has lost that entry and gained the new page's, and
\* the frame holds the new page
ReusedFrame(b, r, new_id, bytes) ==
    /\ r.b.pages_[r.frame] = [page_id_ |-> new_id, pin_count_ |-> 1,
                               is_dirty_ |-> FALSE, data_ |-> bytes]
    /\ \A g \in Frames(b) \ {r.frame} : r.b.pages_[g] = b.pages_[g]
    /\ IF b.free_list_ # <<>>
       THEN /\ r.frame = Head(b.free_list_)
            /\ r.b.disk = b.disk
            /\ \A q \in PageIds(b) \ {new_id} :
                   EHT_Find(r.b.page_table_, q) = EHT_Find(b.page_table_, q)
       ELSE With(b.pages_[LRUK_Evict(b.replacer_).frame_id], LAMBDA victim :
                /\ r.frame = LRUK_Evict(b.replacer_).frame_id
                /\ r.b.disk = IF victim.is_dirty_
                              THEN [b.disk EXCEPT ![victim.page_id_] = victim.data_]
                              ELSE b.disk
                /\ \A q \in PageIds(b) \ {new_id} :
                       EHT_Find(r.b.page_table_, q).found =
                           (q # victim.page_id_ /\ EHT_Find(b.page_table_, q).found)
                /\ \A q \in PageIds(b) \ {new_id, victim.page_id_} :
                       EHT_Find(r.b.page_table_, q) = EHT_Find(b.page_table_, q))
    /\ EHT_Find(r.b.page_table_, new_id) = [found |-> TRUE, value |-> r.frame]

\* C36: eviction writes back first.  When NewPage or FetchPage takes a frame
\* from the replacer and the page p in it is dirty, p's bytes are on disk under
\* p before the frame is zeroed or overwritten, the directory entry of p is
\* removed, and the frame then holds the new page with pin count 1 and the
\* dirty flag off; a frame taken from the free list causes no disk write.
C36_EvictionWritesBack ==
    /\ (bpm.next_page_id_ \in PageIds(bpm) /\ NewPgImp(bpm).frame # NullFrame) =>
           ReusedFrame(bpm, NewPgImp(bpm), bpm.next_page_id_, ZeroData)
    /\ \A p \in PageIds(bpm) :
           (~EHT_Find(bpm.page_table_, p).found /\ FetchPgImp(bpm, p).frame # NullFrame) =>
               ReusedFrame(bpm, FetchPgImp(bpm, p), p, FetchPgImp(bpm, p).b.disk[p])

\* C36 happens: the free list is empty, the replacer's victim holds a dirty
\* page with bytes that its disk copy does not have, and NewPage and a
\* FetchPage of a page that is not resident both take that frame.
C36_Witness ==
    /\ bpm.free_list_ = <<>>
    /\ LRUK_Evict(bpm.replacer_).ok
    /\ With(bpm.pages_[LRUK_Evict(bpm.replacer_).frame_id], LAMBDA victim :
           /\ victim.is_dirty_
           /\ victim.data_ # ZeroData
           /\ victim.data_ # bpm.disk[victim.page_id_])
    /\ bpm.next_page_id_ \in PageIds(bpm)
    /\ NewPgImp(bpm).frame = LRUK_Evict(bpm.replacer_).frame_id
    /\ \E p \in PageIds(bpm) :
           /\ ~EHT_Find(bpm.page_table_, p).found
           /\ FetchPgImp(bpm, p).frame = LRUK_Evict(bpm.replacer_).frame_id

-----------------------------------------------------------------------------
(* The latch of the B+ tree.                                                *)

\* C37: the root latch is released.  Whenever GetValue, Insert, Remove,
\* Begin or End has left, by a return or by the OUT_OF_MEMORY exception of
\* Insert or Split when NewPage returns null, root_page_id_latch_ is free.
C37_LatchReleased ==
    tree.st \in {"ok", "threw"} => threads.root_latch = 0

-----------------------------------------------------------------------------
(* The latch of the buffer pool.                                            *)

\* C38: no buffer pool operation deadlocks on its own.  No call blocks for
\* ever on latch_ while no other call holds it; FlushAllPages in particular
\* returns when a page is resident.
C38_NoSelfDeadlock == latch_ # "deadlock"

-----------------------------------------------------------------------------
(* The empty B+ tree.                                                       *)

\* C39: calls on an empty tree.  While root_page_id_ is INVALID, before the
\* first Insert or after the Remove of the last key, GetValue(k) returns false
\* with nothing added to the result and without a failed assertion, and
\* Remove(k) returns with the tree and the pool as they were.
C39_EmptyTree ==
    (tree.st = "ok" /\ tree.root_page_id_ = INVALID_PAGE_ID) =>
        \A k \in Keys :
            /\ BPT_GetValue(Machine("forward"), k) =
                   [m |-> Machine("forward"), ret |-> FALSE, value |-> 0]
            /\ BPT_Remove(Machine("forward"), k) = Machine("forward")

=============================================================================
